---- MODULE Spec2Model ----
(***************************************************************************)
(* Housing Society Bot: the listing store, the lead-request ledger and the *)
(* payment-claim state machine (database.py, bot.py, matcher.py).          *)
(*                                                                         *)
(* Text columns (contact, subcategory, message, timestamps) are sequences  *)
(* of character codes, compared the way SQLite compares TEXT; enumerated   *)
(* columns (category, listing_type, property_type, gender_preference,      *)
(* status) are strings compared for equality only.                         *)
(***************************************************************************)
EXTENDS Integers, Sequences, FiniteSets, TLC

VARIABLES
    now,                      \* the process clock, in ticks
    listings,                 \* table listings, in rowid order
    listing_seq,              \* AUTOINCREMENT counter of listings
    lead_requests,            \* table lead_requests (row i has id i)
    payment_claims,           \* table payment_claims (row i has id i)
    RAZORPAY_WEBHOOK_SECRET,  \* configuration: "" when the variable is unset
    sqlite_plan,              \* what the SQLite build does where SQL leaves it open
    webhook,                  \* razorpay_webhook: one handler per worker
    outbox,                   \* messages handed to the chat transport
    ret                       \* the value returned by the last store call or webhook

vars == <<now, listings, listing_seq, lead_requests, payment_claims,
          RAZORPAY_WEBHOOK_SECRET, sqlite_plan, webhook, outbox, ret>>

-----------------------------------------------------------------------------
(* Bounds of the model *)

TicksPerSecond == 2      \* clock resolution: ticks in one second
Horizon == 2             \* the clock runs for this many ticks
MaxListings == 4         \* rows inserted by the deduplication runs
MaxFilterListings == 2   \* rows inserted by the filter runs
MaxPageListings == 3     \* rows inserted by the pagination runs
MaxMessages == 3         \* group messages handled by the bot
MaxVisits == 1           \* Get-Leads deep links handled by the bot
NumWorkers == 2          \* concurrent webhook handlers
MaxClaims == 2           \* payment claims saved by the claim-store runs
MaxRevealListings == 3   \* rows inserted by the preview-and-payment runs
MaxSweepListings == 2    \* rows inserted by the purge runs
SweepHorizon == 4        \* the clock of the purge runs goes on for this many ticks
MaxChatListings == 3     \* rows inserted by the cross-group runs
SqliteIntBits == 5       \* width of an SQLite INTEGER (64 in the build)

(* Program constants.  A day of the program is one second of the model's   *)
(* clock, and the lifetime of a listing (180 days in config.py) is cut to   *)
(* one, so that rows expire while the clock runs; the recent window of      *)
(* get_match_stats keeps its 7.                                             *)

LISTING_EXPIRY_DAYS == 1
RECENT_DAYS == 7
FREE_LEADS_COUNT == 1
TIER1_PRICE == 49
TIER1_LEADS == 5
TIER2_PRICE == 199
TIER2_LEADS == 15
ALL_LEADS_LIMIT == 100

-----------------------------------------------------------------------------
(* SQL values and TEXT comparison *)

SqlNull == "NULL"
SqlNullText == <<0>>

Min(a, b) == IF a < b THEN a ELSE b

Truthy(v) == v # SqlNull /\ v # ""
TruthyText(s) == s # SqlNullText /\ s # <<>>

\* ASCII case folding, as LIKE folds it
Lower(c) == IF c >= 65 /\ c <= 90 THEN c + 32 ELSE c

\* text LIKE '%pat%'
Like(text, pat) ==
    /\ text # SqlNullText
    /\ \E i \in 0..(Len(text) - Len(pat)) :
          \A j \in 1..Len(pat) : Lower(text[i + j]) = Lower(pat[j])

\* a < b for two TEXT values (memcmp order: a proper prefix sorts first)
TextLess(a, b) ==
    \E k \in 0..Min(Len(a), Len(b)) :
        /\ \A j \in 1..k : a[j] = b[j]
        /\ \/ k = Len(a) /\ k < Len(b)
           \/ k < Len(a) /\ k < Len(b) /\ a[k + 1] < b[k + 1]

\* sqlite3's adapter for datetime: isoformat(" "); the fraction is left out
\* when the microsecond is 0
adapt_datetime(t) ==
    IF t % TicksPerSecond = 0
    THEN <<t \div TicksPerSecond>>
    ELSE <<t \div TicksPerSecond, t % TicksPerSecond>>

\* DEFAULT CURRENT_TIMESTAMP: whole seconds
CURRENT_TIMESTAMP(t) == <<t \div TicksPerSecond>>

\* the instant a stored timestamp text denotes, in ticks
InstantOf(text) ==
    text[1] * TicksPerSecond + (IF Len(text) > 1 THEN text[2] ELSE 0)

ExpiryTicks == LISTING_EXPIRY_DAYS * TicksPerSecond
StartTick == RECENT_DAYS * TicksPerSecond
MaxNow == StartTick + Horizon

-----------------------------------------------------------------------------
(* Listing store: database.py *)

NoRow == [id |-> 0]

Rows(table) == {table[i] : i \in 1..Len(table)}

NewListing(id, user_id, chat_id, category, subcategory, listing_type, contact, message, property_type, gender_preference, t) ==
    [id |-> id, user_id |-> user_id, chat_id |-> chat_id, category |-> category,
     subcategory |-> subcategory, listing_type |-> listing_type,
     contact |-> contact, message |-> message, property_type |-> property_type,
     gender_preference |-> gender_preference,
     created_at |-> CURRENT_TIMESTAMP(t),
     expires_at |-> adapt_datetime(t + ExpiryTicks)]

NotExpiredOrNow(l, t) == ~TextLess(l.expires_at, adapt_datetime(t))

\* expires_at > ?  with ? = datetime.now()
NotExpired(l, t) == TextLess(adapt_datetime(t), l.expires_at)

\* (subcategory LIKE ? OR message LIKE ?), added when the filter is set
SubcategoryFilter(l, subcategory) ==
    TruthyText(subcategory) =>
        (Like(l.subcategory, subcategory) \/ Like(l.message, subcategory))

RelaxedFilterStrict(value, wanted) ==
    Truthy(wanted) => value = wanted

\* (col = ? OR col IS NULL), added when the filter is set
RelaxedFilter(value, wanted) ==
    Truthy(wanted) => (value = wanted \/ value = SqlNull)

\* col = ?, added when the filter is set
ExactFilter(value, wanted) ==
    Truthy(wanted) => value = wanted

\* a lookup that finds a request for every id once one is stored
get_lead_request_any(request_id) ==
    IF request_id \in 1..Len(lead_requests) THEN lead_requests[request_id]
    ELSE IF Len(lead_requests) > 0 THEN lead_requests[1]
    ELSE NoRow

\* a lookup that returns the newest request whatever the id
get_lead_request_latest(request_id) ==
    IF Len(lead_requests) > 0 THEN lead_requests[Len(lead_requests)] ELSE NoRow

get_lead_request(request_id) ==
    IF request_id \in 1..Len(lead_requests) THEN lead_requests[request_id] ELSE NoRow

SearchTypeSame(req) == req.listing_type

\* query -> offers, offer -> queries
SearchType(req) == IF req.listing_type = "query" THEN "offer" ELSE "query"

LeadsWhereSameChat(l, req, t) ==
    /\ l.category = req.category
    /\ l.listing_type = SearchType(req)
    /\ l.chat_id = req.source_chat_id
    /\ NotExpired(l, t)
    /\ l.contact # SqlNullText
    /\ l.contact # <<>>
    /\ SubcategoryFilter(l, req.subcategory)
    /\ RelaxedFilter(l.property_type, req.property_type)
    /\ RelaxedFilter(l.gender_preference, req.gender_preference)

LeadsWhereEmptyContact(l, req, t) ==
    /\ l.category = req.category
    /\ l.listing_type = SearchType(req)
    /\ NotExpired(l, t)
    /\ l.contact # SqlNullText
    /\ SubcategoryFilter(l, req.subcategory)
    /\ RelaxedFilter(l.property_type, req.property_type)
    /\ RelaxedFilter(l.gender_preference, req.gender_preference)

\* the WHERE clause of get_leads_for_request
LeadsWhere(l, req, t) ==
    /\ l.category = req.category
    /\ l.listing_type = SearchType(req)
    /\ NotExpired(l, t)
    /\ l.contact # SqlNullText
    /\ l.contact # <<>>
    /\ SubcategoryFilter(l, req.subcategory)
    /\ RelaxedFilter(l.property_type, req.property_type)
    /\ RelaxedFilter(l.gender_preference, req.gender_preference)

\* COALESCE(contact, user_id)
GroupKey(l) == IF l.contact # SqlNullText THEN l.contact ELSE l.user_id

\* GROUP BY without an aggregate: the row of the group the bare columns of
\* SELECT * are taken from (the first or the last in scan order)
BareRow(rows, key) ==
    LET group == SelectSeq(rows, LAMBDA l : GroupKey(l) = key)
    IN  IF sqlite_plan.bare_row = "first" THEN group[1] ELSE group[Len(group)]

GroupByAll(rows) == Rows(rows)

GroupBy(rows) == {BareRow(rows, GroupKey(rows[i])) : i \in 1..Len(rows)}

RankedBeforeAscending(a, b) ==
    \/ TextLess(a.created_at, b.created_at)
    \/ /\ a.created_at = b.created_at
       /\ TextLess(GroupKey(a), GroupKey(b))

\* ORDER BY created_at DESC; rows with equal created_at leave the sorter in the
\* order of their group keys
RankedBefore(a, b) ==
    \/ TextLess(b.created_at, a.created_at)
    \/ /\ a.created_at = b.created_at
       /\ IF sqlite_plan.ties = "desc"
          THEN TextLess(GroupKey(b), GroupKey(a))
          ELSE TextLess(GroupKey(a), GroupKey(b))

RECURSIVE OrderBy(_)
OrderBy(S) ==
    IF S = {} THEN <<>>
    ELSE LET head == CHOOSE x \in S : \A y \in S \ {x} : ~RankedBefore(y, x)
         IN  <<head>> \o OrderBy(S \ {head})

LimitOffsetSwapped(rows, limit, offset) ==
    SubSeq(rows, limit + 1, Min(Len(rows), limit + offset))

\* LIMIT ? OFFSET ?
LimitOffset(rows, limit, offset) ==
    SubSeq(rows, offset + 1, Min(Len(rows), offset + limit))

\* the SELECT of get_leads_for_request, run on a table
SelectLeads(table, req, limit, offset) ==
    LimitOffset(
        OrderBy(GroupBy(SelectSeq(table, LAMBDA l : LeadsWhere(l, req, now)))),
        limit, offset)

get_leads_for_request(request_id, limit, offset) ==
    LET req == get_lead_request(request_id)
    IN  IF req = NoRow THEN <<>>
        ELSE SelectLeads(listings, req, limit, offset)

\* the WHERE clause of get_match_stats, get_matching_listings and
\* get_matching_queries
StatsWhere(l, category, listing_type, subcategory, property_type, gender_preference, t) ==
    /\ l.category = category
    /\ l.listing_type = listing_type
    /\ NotExpired(l, t)
    /\ SubcategoryFilter(l, subcategory)
    /\ ExactFilter(l.property_type, property_type)
    /\ ExactFilter(l.gender_preference, gender_preference)

\* the two COUNT(*) of get_match_stats, run on a table
SelectStats(table, category, listing_type, subcategory, property_type, gender_preference) ==
    LET counted == SelectSeq(table, LAMBDA l :
                       StatsWhere(l, category, listing_type, subcategory,
                                  property_type, gender_preference, now))
        recent  == SelectSeq(counted, LAMBDA l :
                       TextLess(adapt_datetime(now - RECENT_DAYS * TicksPerSecond),
                                l.created_at))
    IN  [total |-> Len(counted), recent_7d |-> Len(recent)]

get_match_stats(category, listing_type, subcategory, property_type, gender_preference) ==
    SelectStats(listings, category, listing_type, subcategory, property_type,
                gender_preference)

\* a purge that also takes the rows that expire at t
DeleteExpiredOrNow(table, t) ==
    SelectSeq(table, LAMBDA l : TextLess(adapt_datetime(t), l.expires_at))

\* DELETE FROM listings WHERE expires_at < ?
DeleteExpired(table, t) ==
    SelectSeq(table, LAMBDA l : ~TextLess(l.expires_at, adapt_datetime(t)))

-----------------------------------------------------------------------------
(* Calls of the store, as its tests and the bot make them *)

NoCall == [op |-> "none"]

\* a webhook request: the parsed body and the X-Razorpay-Signature header
Body(event, link_id, payment_id) ==
    [event |-> event, link_id |-> link_id, payment_id |-> payment_id]

\* HMAC-SHA256 as an ideal MAC: a tag names the key and the body it was
\* computed from, and two tags are equal only when both are
Hmac(key, body) == [key |-> key, body |-> body]

\* one handler of the webhook endpoint: where it stands, the request it
\* serves, the claim row it read and the response it gave
Handler(pc, body, signature, claim, response) ==
    [pc |-> pc, body |-> body, signature |-> signature, claim |-> claim,
     response |-> response]

NoBody == Body("", 0, "")

Idle == Handler("idle", NoBody, Hmac("", NoBody), NoRow, "")

store_unchanged == UNCHANGED <<listings, listing_seq, lead_requests, payment_claims>>
bot_unchanged == UNCHANGED <<RAZORPAY_WEBHOOK_SECRET, sqlite_plan, webhook, outbox>>

\* an insert that replaces the rows the user already has
add_listing_replacing(user_id, chat_id, category, subcategory, listing_type, contact, message, property_type, gender_preference) ==
    Append(SelectSeq(listings, LAMBDA l : l.user_id # user_id),
           NewListing(listing_seq + 1, user_id, chat_id, category, subcategory,
                      listing_type, contact, message, property_type,
                      gender_preference, now))

\* INSERT INTO listings: the table after the insert
add_listing(user_id, chat_id, category, subcategory, listing_type, contact, message, property_type, gender_preference) ==
    Append(listings,
           NewListing(listing_seq + 1, user_id, chat_id, category, subcategory,
                      listing_type, contact, message, property_type,
                      gender_preference, now))

AddListing(inputs, max) ==
    /\ listing_seq < max
    /\ \E r \in inputs :
          listings' = add_listing(r.user_id, r.chat_id, r.category, r.subcategory,
                          r.listing_type, r.contact, r.message, r.property_type,
                          r.gender_preference)
    /\ listing_seq' = listing_seq + 1
    /\ ret' = NoCall
    /\ UNCHANGED <<now, lead_requests, payment_claims>>
    /\ bot_unchanged

Tick ==
    /\ now < MaxNow
    /\ now' = now + 1
    /\ ret' = NoCall
    /\ store_unchanged
    /\ bot_unchanged

cleanup_expired ==
    /\ listings' = DeleteExpired(listings, now)
    /\ ret' = [op |-> "cleanup_expired", deleted |-> Len(listings) - Len(listings')]
    /\ UNCHANGED <<now, listing_seq, lead_requests, payment_claims>>
    /\ bot_unchanged

CallGetLeads(limits, offsets) ==
    /\ \E request_id \in 1..Len(lead_requests), limit \in limits, offset \in offsets :
          ret' = [op |-> "get_leads_for_request", request_id |-> request_id,
                  limit |-> limit, offset |-> offset,
                  rows |-> get_leads_for_request(request_id, limit, offset)]
    /\ UNCHANGED now
    /\ store_unchanged
    /\ bot_unchanged

\* test_bot.py, the lead request flow: the free window, then the paid window
\* that starts where the free one ends
CallLeadRequestFlow(frees, paids) ==
    /\ \E request_id \in 1..Len(lead_requests), free \in frees, paid \in paids :
          ret' = [op |-> "lead_request_flow", request_id |-> request_id,
                  free |-> free, paid |-> paid,
                  free_rows |-> get_leads_for_request(request_id, free, 0),
                  paid_rows |-> get_leads_for_request(request_id, paid, free)]
    /\ UNCHANGED now
    /\ store_unchanged
    /\ bot_unchanged

\* matcher.py: the statistics behind the hook message, asked with the fields
\* that the lead request keeps
CallGetMatchStats ==
    /\ \E request_id \in 1..Len(lead_requests) :
          LET req == lead_requests[request_id]
          IN  ret' = [op |-> "get_match_stats", request_id |-> request_id,
                      stats |-> get_match_stats(req.category, SearchType(req),
                                    req.subcategory, req.property_type,
                                    req.gender_preference)]
    /\ UNCHANGED now
    /\ store_unchanged
    /\ bot_unchanged

-----------------------------------------------------------------------------
(* Inputs of the runs *)

Contact1 == <<57, 56>>
Contact2 == <<49, 49>>
Contact3 == <<57, 49>>

Sub2bhk == <<50, 98>>
MsgFlat == <<50, 66, 32, 102>>
MsgPlain == <<102>>

SqlitePlans == [bare_row : {"first", "last"}, ties : {"asc", "desc"}]

BaseListing ==
    [user_id |-> 101, chat_id |-> 1, category |-> "property",
     subcategory |-> SqlNullText, listing_type |-> "offer", contact |-> Contact1,
     message |-> MsgFlat, property_type |-> SqlNull, gender_preference |-> SqlNull]

BaseRequest ==
    [user_id |-> 999, category |-> "property", subcategory |-> SqlNullText,
     property_type |-> SqlNull, gender_preference |-> SqlNull,
     listing_type |-> "query", source_chat_id |-> 1, free_leads_sent |-> 0]

\* _test_deduplication.py: offers of one category from several users, with
\* repeated contacts
DedupListings ==
    {[BaseListing EXCEPT !.user_id = u, !.contact = c] :
        u \in {101, 102}, c \in {Contact1, Contact2}}

InitStore(requests) ==
    /\ now = StartTick
    /\ listings = <<>>
    /\ listing_seq = 0
    /\ lead_requests \in {<<r>> : r \in requests}
    /\ payment_claims = <<>>
    /\ RAZORPAY_WEBHOOK_SECRET = ""
    /\ sqlite_plan \in SqlitePlans
    /\ webhook = [w \in 1..NumWorkers |-> Idle]
    /\ outbox = <<>>
    /\ ret = NoCall

InitDedup == InitStore({BaseRequest})

AddDedupListing == AddListing(DedupListings, MaxListings)
GetLeadsDedup == CallGetLeads({FREE_LEADS_COUNT, TIER1_LEADS}, {0, FREE_LEADS_COUNT})

NextDedup ==
    \/ AddDedupListing
    \/ Tick
    \/ cleanup_expired
    \/ GetLeadsDedup

SpecDedup == InitDedup /\ [][NextDedup]_vars

-----------------------------------------------------------------------------
(* Deduplication of leads *)

IsLeads == ret.op = "get_leads_for_request"

\* the listings the WHERE clause of the returned call selects
Matching(request_id) ==
    {l \in Rows(listings) : LeadsWhere(l, get_lead_request(request_id), now)}

ContactsOf(rows) == {rows[i].contact : i \in 1..Len(rows)}

\* four matching offers: three share Contact1 (posted by both users), one has
\* Contact2
FourOffers ==
    /\ Len(listings) = 4
    /\ Matching(1) = Rows(listings)
    /\ Cardinality({l \in Rows(listings) : l.contact = Contact1}) = 3
    /\ {l.user_id : l \in {m \in Rows(listings) : m.contact = Contact1}} = {101, 102}
    /\ Cardinality({l \in Rows(listings) : l.contact = Contact2}) = 1

\* C6: a result of get_leads_for_request holds no two rows with the same
\* contact; an unwindowed result holds exactly one row for every contact among
\* the matching listings, whoever posted them, so that four offers, three of
\* them sharing a contact, give exactly 2 leads with 2 distinct contacts.
C6_OneLeadPerContact ==
    IsLeads =>
        /\ \A i, j \in 1..Len(ret.rows) :
              i # j => ret.rows[i].contact # ret.rows[j].contact
        /\ (ret.offset = 0 /\ ret.limit >= Len(listings)) =>
              /\ ContactsOf(ret.rows) = {l.contact : l \in Matching(ret.request_id)}
              /\ FourOffers => Len(ret.rows) = 2

C6_Witness ==
    /\ IsLeads
    /\ FourOffers
    /\ ret.offset = 0
    /\ ret.limit = TIER1_LEADS
    /\ Len(ret.rows) = 2
    /\ ContactsOf(ret.rows) = {Contact1, Contact2}

\* C7: the row returned for a group of matching listings that share a contact
\* is the most recent of the group: no matching listing with that contact has
\* a later created_at.
C7_MostRecentOfGroup ==
    IsLeads =>
        \A i \in 1..Len(ret.rows) :
            \A l \in Matching(ret.request_id) :
                l.contact = ret.rows[i].contact =>
                    ~TextLess(ret.rows[i].created_at, l.created_at)

-----------------------------------------------------------------------------
(* Pagination *)

\* test_bot.py: offers of one category with distinct and repeated contacts
PageListings ==
    {[BaseListing EXCEPT !.contact = c] : c \in {Contact1, Contact2, Contact3}}

InitPages == InitStore({BaseRequest})

AddPageListing == AddListing(PageListings, MaxPageListings)
LeadRequestFlow == CallLeadRequestFlow({FREE_LEADS_COUNT, 2}, {1, TIER1_LEADS})

NextPages ==
    \/ AddPageListing
    \/ Tick
    \/ cleanup_expired
    \/ LeadRequestFlow

SpecPages == InitPages /\ [][NextPages]_vars

IsFlow == ret.op = "lead_request_flow"

-----------------------------------------------------------------------------
(* Filters and expiry *)

\* rows and requests that differ from the base row in one column
FilterListings ==
    {BaseListing}
    \cup {[BaseListing EXCEPT !.category = "maid"],
          [BaseListing EXCEPT !.listing_type = "query"],
          [BaseListing EXCEPT !.subcategory = Sub2bhk],
          [BaseListing EXCEPT !.message = MsgPlain]}
    \cup {[BaseListing EXCEPT !.contact = c] : c \in {SqlNullText, <<>>, Contact2}}
    \cup {[BaseListing EXCEPT !.property_type = p] : p \in {"rent", "sale"}}
    \cup {[BaseListing EXCEPT !.gender_preference = g] : g \in {"male", "female"}}

FilterRequests ==
    {BaseRequest}
    \cup {[BaseRequest EXCEPT !.category = "maid"],
          [BaseRequest EXCEPT !.listing_type = "offer"],
          [BaseRequest EXCEPT !.subcategory = Sub2bhk]}
    \cup {[BaseRequest EXCEPT !.property_type = p] : p \in {"rent", "sale"}}
    \cup {[BaseRequest EXCEPT !.gender_preference = g] : g \in {"male", "female"}}

InitFilter == InitStore(FilterRequests)

AddFilterListing == AddListing(FilterListings, MaxFilterListings)
GetLeadsFilter == CallGetLeads({FREE_LEADS_COUNT, TIER1_LEADS}, {0})

NextFilter ==
    \/ AddFilterListing
    \/ Tick
    \/ cleanup_expired
    \/ GetLeadsFilter
    \/ CallGetMatchStats

SpecFilter == InitFilter /\ [][NextFilter]_vars

IsStats == ret.op = "get_match_stats"

Unwindowed == ret.offset = 0 /\ ret.limit >= Len(listings)

\* every condition of the search except the two relaxed attributes
MatchesBesidesAttributes(l, req) ==
    /\ l.category = req.category
    /\ l.listing_type = SearchType(req)
    /\ InstantOf(l.expires_at) > now
    /\ l.contact # SqlNullText
    /\ l.contact # <<>>
    /\ SubcategoryFilter(l, req.subcategory)

\* C9: when the request names a property_type, no returned row has another
\* non-null property_type, and every listing with a null property_type that
\* meets the other conditions is represented in the unwindowed result (by
\* itself or by a row with its contact); the same holds for
\* gender_preference.
C9_RelaxedAttributes ==
    IsLeads =>
        LET req == get_lead_request(ret.request_id)
        IN  /\ Truthy(req.property_type) =>
                /\ \A i \in 1..Len(ret.rows) :
                      ret.rows[i].property_type \in {req.property_type, SqlNull}
                /\ Unwindowed =>
                      \A l \in Rows(listings) :
                          ( /\ l.property_type = SqlNull
                            /\ MatchesBesidesAttributes(l, req)
                            /\ RelaxedFilter(l.gender_preference, req.gender_preference) )
                          => l.contact \in ContactsOf(ret.rows)
            /\ Truthy(req.gender_preference) =>
                /\ \A i \in 1..Len(ret.rows) :
                      ret.rows[i].gender_preference \in {req.gender_preference, SqlNull}
                /\ Unwindowed =>
                      \A l \in Rows(listings) :
                          ( /\ l.gender_preference = SqlNull
                            /\ MatchesBesidesAttributes(l, req)
                            /\ RelaxedFilter(l.property_type, req.property_type) )
                          => l.contact \in ContactsOf(ret.rows)

\* a rent-filtered search that returns an untagged row while a sale row of
\* the same category is stored
C9_Witness ==
    /\ IsLeads
    /\ get_lead_request(ret.request_id).property_type = "rent"
    /\ \E i \in 1..Len(ret.rows) : ret.rows[i].property_type = SqlNull
    /\ \E l \in Rows(listings) :
          /\ l.property_type = "sale"
          /\ MatchesBesidesAttributes(l, get_lead_request(ret.request_id))
          /\ ~(l \in Rows(ret.rows))

\* the listings get_match_stats is asked about, with expiry left aside
StatsCandidates(req) ==
    {l \in Rows(listings) :
        /\ l.category = req.category
        /\ l.listing_type = SearchType(req)
        /\ SubcategoryFilter(l, req.subcategory)
        /\ ExactFilter(l.property_type, req.property_type)
        /\ ExactFilter(l.gender_preference, req.gender_preference)}

\* C10: a listing whose expires_at is not later than the clock is in no
\* result of get_leads_for_request and is not counted by get_match_stats,
\* purged or not.
C10_ExpiredNeverVisible ==
    /\ IsLeads =>
          \A i \in 1..Len(ret.rows) : InstantOf(ret.rows[i].expires_at) > now
    /\ IsStats =>
          ret.stats.total =
              Cardinality({l \in StatsCandidates(get_lead_request(ret.request_id)) :
                              InstantOf(l.expires_at) > now})

\* an expired row that is still stored and meets every other condition of the
\* call that has just returned
C10_Witness ==
    /\ IsLeads \/ IsStats
    /\ \E l \in StatsCandidates(get_lead_request(ret.request_id)) :
          /\ InstantOf(l.expires_at) <= now
          /\ TruthyText(l.contact)
    /\ IsLeads => Len(ret.rows) > 0
    /\ IsStats => ret.stats.total > 0

-----------------------------------------------------------------------------
(* Payment claims: database.py *)

NewClaim(id, user_id, request_id, amount, tier, razorpay_link_id) ==
    [id |-> id, user_id |-> user_id, request_id |-> request_id, amount |-> amount,
     tier |-> tier, razorpay_link_id |-> razorpay_link_id,
     razorpay_payment_id |-> SqlNull, status |-> "created"]

\* an insert that stores the claim as paid
save_payment_claim_paid(claims, user_id, request_id, amount, tier, razorpay_link_id) ==
    Append(claims,
           [NewClaim(Len(claims) + 1, user_id, request_id, amount, tier, razorpay_link_id)
                EXCEPT !.status = "paid"])

\* INSERT INTO payment_claims (..., status) VALUES (..., 'created'): the table
\* after the insert
save_payment_claim(claims, user_id, request_id, amount, tier, razorpay_link_id) ==
    Append(claims,
           NewClaim(Len(claims) + 1, user_id, request_id, amount, tier, razorpay_link_id))

get_payment_by_link_id_any(razorpay_link_id) ==
    IF Len(payment_claims) > 0 THEN payment_claims[1] ELSE NoRow

\* SELECT * FROM payment_claims WHERE razorpay_link_id = ?  (fetchone)
get_payment_by_link_id(razorpay_link_id) ==
    LET found == SelectSeq(payment_claims,
                     LAMBDA c : c.razorpay_link_id = razorpay_link_id)
    IN  IF Len(found) > 0 THEN found[1] ELSE NoRow

update_payment_status_swapped(claim_id, status, razorpay_payment_id) ==
    [i \in 1..Len(payment_claims) |->
        IF payment_claims[i].id = claim_id
        THEN [payment_claims[i] EXCEPT !.status = razorpay_payment_id,
                                       !.razorpay_payment_id = status]
        ELSE payment_claims[i]]

\* UPDATE payment_claims SET status = ?[, razorpay_payment_id = ?] WHERE id = ?:
\* the table after the update
update_payment_status(claim_id, status, razorpay_payment_id) ==
    [i \in 1..Len(payment_claims) |->
        IF payment_claims[i].id = claim_id
        THEN IF razorpay_payment_id # ""
             THEN [payment_claims[i] EXCEPT !.status = status,
                                            !.razorpay_payment_id = razorpay_payment_id]
             ELSE [payment_claims[i] EXCEPT !.status = status]
        ELSE payment_claims[i]]

-----------------------------------------------------------------------------
(* The bot: bot.py *)

\* a message the bot sends: the chat, what it is, the lead request or claim it
\* answers, the contacts and payment links it carries, whether Telegram took it
Message(to, kind, ref, rows, buttons, delivered) ==
    [to |-> to, kind |-> kind, ref |-> ref,
     contacts |-> [i \in 1..Len(rows) |-> rows[i].contact],
     buttons |-> buttons, delivered |-> delivered]

OppositeType(listing_type) == IF listing_type = "offer" THEN "query" ELSE "offer"

\* handle_message for a group message the classifier gave `result` for:
\* add_listing, then find_interested_buyers (offers) or find_matches
\* (queries, whose get_matching_listings deletes the expired rows), then
\* save_lead_request and the reply with the Get-Leads deep link
store_message(user_id, chat_id, text, result) ==
    LET inserted == add_listing(user_id, chat_id, result.category,
                        result.subcategory, result.listing_type, result.contact,
                        text, result.property_type, result.gender_preference)
        total == Len(SelectSeq(inserted, LAMBDA l :
                     StatsWhere(l, result.category,
                         OppositeType(result.listing_type), result.subcategory,
                         result.property_type, result.gender_preference, now)))
    IN  /\ listing_seq < MaxMessages
        /\ listing_seq' = listing_seq + 1
        /\ listings' = IF total > 0 /\ result.listing_type = "query"
                       THEN DeleteExpired(inserted, now)
                       ELSE inserted
        /\ IF total > 0
           THEN /\ lead_requests' = Append(lead_requests,
                       [user_id |-> user_id, category |-> result.category,
                        subcategory |-> result.subcategory,
                        property_type |-> result.property_type,
                        gender_preference |-> result.gender_preference,
                        listing_type |-> result.listing_type,
                        source_chat_id |-> chat_id, free_leads_sent |-> 0])
                /\ outbox' = Append(outbox,
                       Message(chat_id, "hook", Len(lead_requests) + 1, <<>>, <<>>, TRUE))
           ELSE UNCHANGED <<lead_requests, outbox>>

handle_message(user_id, chat_id, text, result) ==
    /\ store_message(user_id, chat_id, text, result)
    /\ ret' = NoCall
    /\ UNCHANGED <<now, payment_claims, RAZORPAY_WEBHOOK_SECRET, sqlite_plan, webhook>>

\* the /start commands answered so far: each answer starts with one of these
Visits ==
    Cardinality({i \in 1..Len(outbox) :
        outbox[i].kind \in {"help", "invalid_link", "link_expired", "no_contacts",
                            "free_leads"}})

\* _create_razorpay_link: the provider names every link it creates differently
create_razorpay_link(claims) == 11 + Len(claims)

\* the upsell offered as soon as the free count is reached
more_available_from_free_count(total_available) == total_available >= FREE_LEADS_COUNT

\* if total_available > FREE_LEADS_COUNT
more_available(total_available) == total_available > FREE_LEADS_COUNT

\* _handle_get_leads for /start leads_<request_id>; link_ok says which of the
\* two calls of the payment provider succeed
handle_get_leads(user_id, request_id, link_ok) ==
    LET lead_req == get_lead_request(request_id)
        free_listings == get_leads_for_request(request_id, FREE_LEADS_COUNT, 0)
        all_listings == get_leads_for_request(request_id, ALL_LEADS_LIMIT, 0)
        with_t1 == IF link_ok.t1
                   THEN save_payment_claim(payment_claims, user_id, request_id,
                            TIER1_PRICE, "t1", create_razorpay_link(payment_claims))
                   ELSE payment_claims
        with_t2 == IF link_ok.t2
                   THEN save_payment_claim(with_t1, user_id, request_id,
                            TIER2_PRICE, "t2", create_razorpay_link(with_t1))
                   ELSE with_t1
        buttons == [i \in 1..(Len(with_t2) - Len(payment_claims)) |->
                       with_t2[Len(payment_claims) + i].razorpay_link_id]
        free_msg == Message(user_id, "free_leads", request_id, free_listings, <<>>, TRUE)
    IN  /\ Visits < MaxVisits
        /\ IF lead_req = NoRow
           THEN /\ outbox' = Append(outbox,
                       Message(user_id, "link_expired", request_id, <<>>, <<>>, TRUE))
                /\ UNCHANGED payment_claims
           ELSE IF Len(free_listings) = 0
           THEN /\ outbox' = Append(outbox,
                       Message(user_id, "no_contacts", request_id, <<>>, <<>>, TRUE))
                /\ UNCHANGED payment_claims
           ELSE IF more_available(Len(all_listings))
           THEN /\ payment_claims' = with_t2
                /\ outbox' = outbox \o <<free_msg,
                       Message(user_id,
                               IF Len(buttons) > 0 THEN "upsell" ELSE "payment_unavailable",
                               request_id, <<>>, buttons, TRUE)>>
           ELSE /\ outbox' = outbox \o <<free_msg,
                       Message(user_id, "thats_all", request_id, <<>>, <<>>, TRUE)>>
                /\ UNCHANGED payment_claims
        /\ ret' = [op |-> "handle_get_leads", request_id |-> request_id,
                   reply |-> IF lead_req = NoRow THEN "link_expired"
                             ELSE IF Len(free_listings) = 0 THEN "no_contacts"
                             ELSE "free_leads"]
        /\ UNCHANGED <<now, listings, listing_seq, lead_requests,
                       RAZORPAY_WEBHOOK_SECRET, sqlite_plan, webhook>>

\* _verify_webhook_signature: skipped when no secret is configured
\* "leads_"
LeadsPrefix == <<108, 101, 97, 100, 115, 95>>

StartsWith(s, p) == Len(s) >= Len(p) /\ SubSeq(s, 1, Len(p)) = p

\* str.replace(p, ""): every occurrence of p is taken out, left to right
RECURSIVE Remove(_, _)
Remove(s, p) ==
    IF s = <<>> THEN <<>>
    ELSE IF StartsWith(s, p) THEN Remove(SubSeq(s, Len(p) + 1, Len(s)), p)
    ELSE <<s[1]>> \o Remove(Tail(s), p)

IsDigit(c) == c >= 48 /\ c <= 57

\* str.strip() of blanks
RECURSIVE Strip(_)
Strip(s) ==
    IF s # <<>> /\ s[1] = 32 THEN Strip(Tail(s))
    ELSE IF s # <<>> /\ s[Len(s)] = 32 THEN Strip(SubSeq(s, 1, Len(s) - 1))
    ELSE s

RECURSIVE DigitsValue(_, _)
DigitsValue(s, acc) ==
    IF s = <<>> THEN acc
    ELSE IF s[1] = 95 THEN DigitsValue(Tail(s), acc)
    ELSE DigitsValue(Tail(s), acc * 10 + (s[1] - 48))

\* int(text): blanks around, an optional sign, digits with single underscores
\* between them; anything else is a ValueError
ParseInt(text) ==
    LET stripped == Strip(text)
        signed == stripped # <<>> /\ stripped[1] \in {43, 45}
        digits == IF signed THEN Tail(stripped) ELSE stripped
        valid == /\ digits # <<>>
                 /\ \A i \in 1..Len(digits) : IsDigit(digits[i]) \/ digits[i] = 95
                 /\ IsDigit(digits[1])
                 /\ IsDigit(digits[Len(digits)])
                 /\ \A i \in 1..(Len(digits) - 1) : ~(digits[i] = 95 /\ digits[i + 1] = 95)
        magnitude == DigitsValue(digits, 0)
    IN  IF ~valid THEN [ok |-> FALSE, value |-> 0]
        ELSE [ok |-> TRUE,
              value |-> IF signed /\ stripped[1] = 45 THEN 0 - magnitude ELSE magnitude]

\* sqlite3 binds a Python int only when it fits SQLite's signed INTEGER, and
\* raises OverflowError otherwise
SqliteBindable(n) == n >= 0 - 2 ^ (SqliteIntBits - 1) /\ n <= 2 ^ (SqliteIntBits - 1) - 1

\* what a /start handler did: the argument, the kind of its first reply ("" when
\* it sent none) and the exception it ended with ("" when it returned)
Started(arg, reply, raised) ==
    [op |-> "handle_start", arg |-> arg, reply |-> reply, raised |-> raised]

\* handle_start with an argument: help_command unless the argument starts with
\* leads_, else _handle_get_leads, whose first lines parse the id
handle_start(user_id, arg, link_ok) ==
    LET parsed == ParseInt(Remove(arg, LeadsPrefix))
    IN  IF ~StartsWith(arg, LeadsPrefix)
        THEN /\ Visits < MaxVisits
             /\ outbox' = Append(outbox, Message(user_id, "help", 0, <<>>, <<>>, TRUE))
             /\ ret' = Started(arg, "help", "")
             /\ UNCHANGED <<now, RAZORPAY_WEBHOOK_SECRET, sqlite_plan, webhook>>
             /\ store_unchanged
        ELSE IF ~parsed.ok
        THEN /\ Visits < MaxVisits
             /\ outbox' = Append(outbox,
                    Message(user_id, "invalid_link", 0, <<>>, <<>>, TRUE))
             /\ ret' = Started(arg, "invalid_link", "")
             /\ UNCHANGED <<now, RAZORPAY_WEBHOOK_SECRET, sqlite_plan, webhook>>
             /\ store_unchanged
        ELSE IF ~SqliteBindable(parsed.value)
        THEN /\ Visits < MaxVisits
             /\ ret' = Started(arg, "", "OverflowError")
             /\ UNCHANGED <<now, RAZORPAY_WEBHOOK_SECRET, sqlite_plan, webhook, outbox>>
             /\ store_unchanged
        ELSE handle_get_leads(user_id, parsed.value, link_ok)

verify_webhook_signature(body, signature) ==
    IF RAZORPAY_WEBHOOK_SECRET = ""
    THEN TRUE
    ELSE Hmac(RAZORPAY_WEBHOOK_SECRET, body) = signature

AlreadyProcessedNever(claim) == FALSE

\* if claim["status"] == "paid"
AlreadyProcessed(claim) == claim.status = "paid"

\* web.json_response of the endpoint, as the last call's return value
Response(status) == [op |-> "razorpay_webhook", status |-> status]

\* razorpay_webhook that calls _deliver_leads without update_payment_status
WebhookReceiveDeliverUnpaid(w, body, signature) ==
    LET claim == get_payment_by_link_id(body.link_id)
    IN  /\ webhook[w].pc = "idle"
        /\ IF claim = NoRow
           THEN /\ ret' = Response("no_claim")
                /\ UNCHANGED webhook
           ELSE /\ webhook' = [webhook EXCEPT ![w] =
                                  Handler("deliver", body, signature, claim, "")]
                /\ ret' = NoCall
        /\ UNCHANGED <<now, RAZORPAY_WEBHOOK_SECRET, sqlite_plan, outbox>>
        /\ store_unchanged

\* razorpay_webhook up to the lookup of the claim: read the request, verify
\* the signature, parse the event, read the claim and test its status
WebhookReceive(w, body, signature) ==
    LET claim == get_payment_by_link_id(body.link_id)
        early == IF ~verify_webhook_signature(body, signature) THEN "invalid_signature"
                 ELSE IF body.event # "payment_link.paid" THEN "ok"
                 ELSE IF claim = NoRow THEN "no_claim"
                 ELSE IF AlreadyProcessed(claim) THEN "already_processed"
                 ELSE ""
    IN  /\ webhook[w].pc = "idle"
        /\ IF early # ""
           THEN /\ ret' = Response(early)
                /\ UNCHANGED webhook
           ELSE /\ webhook' = [webhook EXCEPT ![w] =
                                  Handler("mark_paid", body, signature, claim, "")]
                /\ ret' = NoCall
        /\ UNCHANGED <<now, RAZORPAY_WEBHOOK_SECRET, sqlite_plan, outbox>>
        /\ store_unchanged

\* update_payment_status(claim["id"], "paid", razorpay_payment_id=payment_id)
WebhookMarkPaid(w) ==
    /\ webhook[w].pc = "mark_paid"
    /\ payment_claims' = update_payment_status(webhook[w].claim.id, "paid",
                             webhook[w].body.payment_id)
    /\ webhook' = [webhook EXCEPT ![w].pc = "deliver"]
    /\ ret' = NoCall
    /\ UNCHANGED <<now, listings, listing_seq, lead_requests,
                   RAZORPAY_WEBHOOK_SECRET, sqlite_plan, outbox>>

\* format_paid_leads: which message the buyer gets; an empty list gives the
\* no-additional-contacts text, whatever include_tips says
format_paid_leads(rows, include_tips) ==
    IF Len(rows) = 0 THEN "no_additional_contacts"
    ELSE IF include_tips THEN "paid_leads_with_tips"
    ELSE "paid_leads"

PaidKinds == {"no_additional_contacts", "paid_leads", "paid_leads_with_tips"}

WebhookDeliverRollback(w, sent) ==
    LET claim == webhook[w].claim
        paid_listings == get_leads_for_request(claim.request_id,
                             IF claim.tier = "t1" THEN TIER1_LEADS ELSE TIER2_LEADS,
                             FREE_LEADS_COUNT)
    IN  /\ webhook[w].pc = "deliver"
        /\ outbox' = Append(outbox,
                         Message(claim.user_id,
                                 format_paid_leads(paid_listings, claim.tier # "t1"),
                                 claim.id, paid_listings, <<>>, sent))
        /\ payment_claims' = IF sent THEN payment_claims
                             ELSE update_payment_status(claim.id, "created", "")
        /\ webhook' = [webhook EXCEPT ![w] = Idle]
        /\ ret' = Response("delivered")
        /\ UNCHANGED <<now, listings, listing_seq, lead_requests,
                       RAZORPAY_WEBHOOK_SECRET, sqlite_plan>>

\* _deliver_leads(app.bot, claim) with the claim row read before the update,
\* then the response; sent says whether Telegram took the message
WebhookDeliver(w, sent) ==
    LET claim == webhook[w].claim
        lead_req == get_lead_request(claim.request_id)
        leads_count == IF claim.tier = "t1" THEN TIER1_LEADS ELSE TIER2_LEADS
        include_tips == claim.tier # "t1"
        paid_listings == get_leads_for_request(claim.request_id, leads_count,
                                               FREE_LEADS_COUNT)
    IN  /\ webhook[w].pc = "deliver"
        /\ outbox' = IF lead_req = NoRow THEN outbox
                     ELSE Append(outbox,
                              Message(claim.user_id,
                                      format_paid_leads(paid_listings, include_tips),
                                      claim.id, paid_listings, <<>>, sent))
        /\ webhook' = [webhook EXCEPT ![w] = Idle]
        /\ ret' = Response("delivered")
        /\ UNCHANGED <<now, RAZORPAY_WEBHOOK_SECRET, sqlite_plan>>
        /\ store_unchanged

\* cleanup_job: the daily call of cleanup_expired
cleanup_job == cleanup_expired

-----------------------------------------------------------------------------
(* The bot's runs *)

ProviderSecret == "whsec"
PaymentIds == {"pay_1"}

OfferResult(contact) ==
    [category |-> "property", subcategory |-> SqlNullText, listing_type |-> "offer",
     contact |-> contact, property_type |-> SqlNull, gender_preference |-> SqlNull]

QueryResult ==
    [category |-> "property", subcategory |-> SqlNullText, listing_type |-> "query",
     contact |-> SqlNullText, property_type |-> SqlNull, gender_preference |-> SqlNull]

MessageInputs ==
    {[user_id |-> 101, chat_id |-> 1, text |-> MsgFlat, result |-> OfferResult(Contact1)],
     [user_id |-> 102, chat_id |-> 1, text |-> MsgFlat, result |-> OfferResult(Contact2)],
     [user_id |-> 999, chat_id |-> 1, text |-> MsgPlain, result |-> QueryResult]}

\* the bodies the endpoint is sent: a payment of a link the bot created or of
\* one it never saw, and another event
WebhookBodies ==
    {Body("payment_link.paid", link_id, payment_id) :
        link_id \in {0} \cup {payment_claims[i].razorpay_link_id : i \in 1..Len(payment_claims)},
        payment_id \in PaymentIds}
    \cup {Body("payment_link.expired", 0, "")}

\* the header: the provider's tag of this body, or its tag of the body before
\* the body was altered
Signatures(body) ==
    {Hmac(ProviderSecret, body),
     Hmac(ProviderSecret, [body EXCEPT !.payment_id = ""])}

Init ==
    /\ now = StartTick
    /\ listings = <<>>
    /\ listing_seq = 0
    /\ lead_requests = <<>>
    /\ payment_claims = <<>>
    /\ RAZORPAY_WEBHOOK_SECRET \in {"", ProviderSecret}
    /\ sqlite_plan \in SqlitePlans
    /\ webhook = [w \in 1..NumWorkers |-> Idle]
    /\ outbox = <<>>
    /\ ret = NoCall

HandleMessage ==
    \E m \in MessageInputs : handle_message(m.user_id, m.chat_id, m.text, m.result)

\* str(n) for a one-digit n
Digit(n) == <<48 + n>>

\* /start arguments: the deep link of every stored request and of the next
\* id, ids written in other ways, ids beyond SQLite's integers, text that is
\* no number, and an argument that is no deep link
StartArgs ==
    {LeadsPrefix \o Digit(n) : n \in 0..(Len(lead_requests) + 1)}
    \cup {LeadsPrefix \o <<45, 49>>, LeadsPrefix \o <<57, 57>>,
          LeadsPrefix \o <<97>>, LeadsPrefix, <<104>>}

HandleStart ==
    /\ Visits < MaxVisits
    /\ \E arg \in StartArgs, link_ok \in [t1 : BOOLEAN, t2 : BOOLEAN] :
          handle_start(999, arg, link_ok)

Receive(w) ==
    \E body \in WebhookBodies : \E signature \in Signatures(body) :
        WebhookReceive(w, body, signature)

Next ==
    \/ HandleMessage
    \/ HandleStart
    \/ Tick
    \/ cleanup_job
    \/ \E w \in 1..NumWorkers : Receive(w)
    \/ \E w \in 1..NumWorkers : WebhookMarkPaid(w)
    \/ \E w \in 1..NumWorkers : WebhookDeliver(w, TRUE)

Spec == Init /\ [][Next]_vars

\* one confirmation at a time: a request is taken up only when every handler
\* has returned
ReceiveAlone(w) ==
    /\ \A v \in 1..NumWorkers : webhook[v].pc = "idle"
    /\ Receive(w)

NextSeq ==
    \/ HandleMessage
    \/ HandleStart
    \/ Tick
    \/ cleanup_job
    \/ \E w \in 1..NumWorkers : ReceiveAlone(w)
    \/ \E w \in 1..NumWorkers : WebhookMarkPaid(w)
    \/ \E w \in 1..NumWorkers : \E sent \in BOOLEAN : WebhookDeliver(w, sent)

SpecSeq == Init /\ [][NextSeq]_vars

-----------------------------------------------------------------------------
(* Calls of the payment-claim functions with any arguments *)

ClaimStatuses == {"created", "paid", "approved", "rejected"}
Terminal == {"paid", "approved", "rejected"}

SavePaymentClaim ==
    /\ Len(payment_claims) < MaxClaims
    /\ \E tier \in {"t1", "t2"} :
          payment_claims' = save_payment_claim(payment_claims, 999, 1,
                                IF tier = "t1" THEN TIER1_PRICE ELSE TIER2_PRICE,
                                tier, create_razorpay_link(payment_claims))
    /\ ret' = [op |-> "save_payment_claim", claim_id |-> Len(payment_claims) + 1]
    /\ UNCHANGED <<now, listings, listing_seq, lead_requests>>
    /\ bot_unchanged

\* the return value keeps the row as it was before the call
CallUpdatePaymentStatus ==
    /\ \E claim_id \in 1..Len(payment_claims), status \in ClaimStatuses,
          razorpay_payment_id \in {"", "pay_1", "pay_2"} :
          /\ payment_claims' = update_payment_status(claim_id, status, razorpay_payment_id)
          /\ ret' = [op |-> "update_payment_status", claim_id |-> claim_id,
                     status |-> status, before |-> payment_claims[claim_id]]
    /\ UNCHANGED <<now, listings, listing_seq, lead_requests>>
    /\ bot_unchanged

CallGetPaymentByLinkId ==
    /\ \E razorpay_link_id \in 11..(11 + MaxClaims) :
          ret' = [op |-> "get_payment_by_link_id", razorpay_link_id |-> razorpay_link_id,
                  row |-> get_payment_by_link_id(razorpay_link_id)]
    /\ UNCHANGED now
    /\ store_unchanged
    /\ bot_unchanged

InitClaims == InitStore({BaseRequest})

NextClaims ==
    \/ SavePaymentClaim
    \/ CallUpdatePaymentStatus
    \/ CallGetPaymentByLinkId

SpecClaims == InitClaims /\ [][NextClaims]_vars

-----------------------------------------------------------------------------
(* Payment confirmations *)

\* the paid-leads messages sent for a claim
Deliveries(claim_id) ==
    Cardinality({i \in 1..Len(outbox) :
        outbox[i].kind \in PaidKinds /\ outbox[i].ref = claim_id})

\* the handlers that are between reading a claim and returning
InFlight(claim_id) ==
    {w \in 1..NumWorkers : webhook[w].pc # "idle" /\ webhook[w].claim.id = claim_id}

\* C1: of the payment_link.paid events handled concurrently for one payment
\* link, at most one applies the transition to paid and delivers the leads:
\* no claim has two handlers past the status test, and no claim has its paid
\* leads sent twice.
C1_OneConfirmationApplies ==
    \A i \in 1..Len(payment_claims) :
        /\ Cardinality(InFlight(payment_claims[i].id)) <= 1
        /\ Deliveries(payment_claims[i].id) <= 1

\* C2: when confirmations are handled one after the other, a claim is marked
\* paid and its leads are sent exactly once: a created claim has no delivery,
\* a paid claim whose handler has returned has exactly one, and a confirmation
\* answered already_processed leaves the tables and the sent messages as
\* they were.
C2_SuccessiveConfirmations ==
    /\ [](\A i \in 1..Len(payment_claims) :
            LET c == payment_claims[i]
            IN  /\ Cardinality(InFlight(c.id)) <= 1
                /\ Deliveries(c.id) <= 1
                /\ (c.status = "created" => Deliveries(c.id) = 0)
                /\ (c.status = "paid" /\ InFlight(c.id) = {} => Deliveries(c.id) = 1))
    /\ [][ret' = Response("already_processed") =>
             UNCHANGED <<listings, lead_requests, payment_claims, outbox, webhook>>]_vars

C2_Witness ==
    /\ ret = Response("already_processed")
    /\ \E i \in 1..Len(payment_claims) :
          /\ payment_claims[i].status = "paid"
          /\ Deliveries(payment_claims[i].id) = 1

\* C3: update_payment_status is a compare-and-set: a call on a claim whose
\* status is terminal leaves the row as it was.
C3_CompareAndSet ==
    (ret.op = "update_payment_status" /\ ret.before.status \in Terminal)
        => payment_claims[ret.claim_id] = ret.before

\* C4: a claim's status is monotonic: a claim is created with status created,
\* is never removed, and the only change of its status is the one from
\* created to a terminal status.
C4_StatusMonotonic ==
    [][/\ Len(payment_claims') >= Len(payment_claims)
       /\ \A i \in 1..Len(payment_claims) :
             \/ payment_claims'[i].status = payment_claims[i].status
             \/ /\ payment_claims[i].status = "created"
                /\ payment_claims'[i].status \in Terminal
       /\ \A i \in (Len(payment_claims) + 1)..Len(payment_claims') :
             payment_claims'[i].status = "created"]_vars

C4_Witness ==
    /\ \E i \in 1..Len(payment_claims) :
          /\ payment_claims[i].status = "paid"
          /\ InFlight(payment_claims[i].id) # {}
          /\ \E w \in InFlight(payment_claims[i].id) : webhook[w].pc = "deliver"
    /\ \E i \in 1..Len(payment_claims) : payment_claims[i].status = "created"

\* C5: a request whose signature is not the HMAC of its body under the
\* configured secret never gets past the verification: no handler that read
\* a claim, marks it paid or delivers its leads serves such a request.
C5_BadSignatureRejected ==
    \A w \in 1..NumWorkers :
        webhook[w].pc # "idle" =>
            webhook[w].signature = Hmac(RAZORPAY_WEBHOOK_SECRET, webhook[w].body)


-----------------------------------------------------------------------------
(* Lead resolution: what a returned lead is *)

\* C11: every row returned by get_leads_for_request carries a contact that
\* is neither null nor the empty string.
C11_EveryLeadHasContact ==
    IsLeads => \A i \in 1..Len(ret.rows) : TruthyText(ret.rows[i].contact)

\* leads were returned while a row without a contact (null or empty) of the
\* searched category and type is stored and not expired
C11_Witness ==
    /\ IsLeads
    /\ Len(ret.rows) > 0
    /\ \E l \in Rows(listings) :
          LET req == get_lead_request(ret.request_id)
          IN  /\ ~TruthyText(l.contact)
              /\ l.category = req.category
              /\ l.listing_type = SearchType(req)
              /\ InstantOf(l.expires_at) > now


\* C12: every row returned for a lead request has the request's category and
\* the listing_type opposite to the request's: offers for a request posted as
\* a query, queries for a request posted as an offer.
C12_OppositeTypeSameCategory ==
    IsLeads =>
        LET req == get_lead_request(ret.request_id)
        IN  \A i \in 1..Len(ret.rows) :
                /\ ret.rows[i].category = req.category
                /\ req.listing_type = "query" => ret.rows[i].listing_type = "offer"
                /\ req.listing_type = "offer" => ret.rows[i].listing_type = "query"

\* a request posted as an offer got a lead while an offer of its category,
\* with a contact, is stored and not expired
C12_Witness ==
    /\ IsLeads
    /\ Len(ret.rows) > 0
    /\ get_lead_request(ret.request_id).listing_type = "offer"
    /\ \E l \in Rows(listings) :
          /\ l.listing_type = "offer"
          /\ l.category = get_lead_request(ret.request_id).category
          /\ TruthyText(l.contact)
          /\ InstantOf(l.expires_at) > now


\* C13: the returned list is in descending order of created_at: no lead is
\* followed by one that was created later.
C13_RecencyOrder ==
    IsLeads =>
        \A i \in 1..(Len(ret.rows) - 1) :
            ~TextLess(ret.rows[i].created_at, ret.rows[i + 1].created_at)

\* two leads created in different seconds were returned, the later-inserted
\* row first
C13_Witness ==
    /\ IsLeads
    /\ Len(ret.rows) >= 2
    /\ ret.rows[1].created_at # ret.rows[2].created_at
    /\ ret.rows[1].id > ret.rows[2].id


-----------------------------------------------------------------------------
(* Listings and requests of several chats: test_bot.py, cross-group matching *)

Chats == {1, 2}

ChatListings ==
    {[BaseListing EXCEPT !.chat_id = g, !.contact = c] :
        g \in Chats, c \in {Contact1, Contact2}}

ChatRequests == {[BaseRequest EXCEPT !.source_chat_id = g] : g \in Chats}

InitChats == InitStore(ChatRequests)

AddChatListing == AddListing(ChatListings, MaxChatListings)
GetLeadsChats == CallGetLeads({FREE_LEADS_COUNT, TIER1_LEADS}, {0, FREE_LEADS_COUNT})

NextChats ==
    \/ AddChatListing
    \/ Tick
    \/ GetLeadsChats
    \/ CallGetMatchStats

SpecChats == InitChats /\ [][NextChats]_vars

\* the table with the chat of row i replaced by chat_of[i]
Rechat(table, chat_of) ==
    [i \in 1..Len(table) |-> [table[i] EXCEPT !.chat_id = chat_of[i]]]

\* rows with the chat_id column left out of the comparison
ChatBlind(rows) == [i \in 1..Len(rows) |-> [rows[i] EXCEPT !.chat_id = 0]]

\* C14: the result of get_leads_for_request and of get_match_stats is the
\* same for every store that differs from this one only in the chat_id of
\* its listings and the source_chat_id of the request.
C14_CrossGroup ==
    \A chat_of \in [1..Len(listings) -> Chats], source \in Chats :
        LET req == get_lead_request(ret.request_id)
            moved == [req EXCEPT !.source_chat_id = source]
        IN  /\ IsLeads =>
                  ChatBlind(SelectLeads(Rechat(listings, chat_of), moved,
                                        ret.limit, ret.offset))
                      = ChatBlind(ret.rows)
            /\ IsStats =>
                  SelectStats(Rechat(listings, chat_of), moved.category,
                              SearchType(moved), moved.subcategory,
                              moved.property_type, moved.gender_preference)
                      = ret.stats

\* a requester of one chat was given a lead that was posted in another chat
C14_Witness ==
    /\ IsLeads
    /\ \E i \in 1..Len(ret.rows) :
          ret.rows[i].chat_id # get_lead_request(ret.request_id).source_chat_id


-----------------------------------------------------------------------------
(* Deep links and confirmations that name nothing stored *)

\* C15: a deep link whose id is malformed or names no stored lead request is
\* answered with the invalid-link or the link-expired message, and the
\* handler creates no payment claim and changes no table.
C15_UnknownRequestIsExpected ==
    [][/\ (ret'.op = "handle_start" /\ StartsWith(ret'.arg, LeadsPrefix))
            => /\ ret'.reply = "invalid_link"
               /\ UNCHANGED <<listings, lead_requests, payment_claims>>
       /\ (ret'.op = "handle_get_leads" /\ get_lead_request(ret'.request_id) = NoRow)
            => /\ ret'.reply = "link_expired"
               /\ UNCHANGED <<listings, lead_requests, payment_claims>>]_vars


\* C16: a verified payment_link.paid request whose link id is that of no
\* stored claim is answered no_claim, and a verified request of another event
\* is answered ok; neither changes a claim, starts a handler's transition or
\* sends a message.
C16_UnknownLinkNotFound ==
    [][ret'.op = "razorpay_webhook" =>
         \A w \in 1..NumWorkers : \A body \in WebhookBodies :
           \A signature \in Signatures(body) :
             ( /\ WebhookReceive(w, body, signature)
               /\ verify_webhook_signature(body, signature) )
             => /\ ( /\ body.event = "payment_link.paid"
                     /\ \A i \in 1..Len(payment_claims) :
                           payment_claims[i].razorpay_link_id # body.link_id )
                   => /\ ret' = Response("no_claim")
                      /\ UNCHANGED <<payment_claims, outbox, webhook>>
                /\ body.event # "payment_link.paid"
                   => /\ ret' = Response("ok")
                      /\ UNCHANGED <<payment_claims, outbox, webhook>>]_vars

\* a confirmation was answered no_claim while a claim waits for its payment
C16_Witness ==
    /\ ret = Response("no_claim")
    /\ \E i \in 1..Len(payment_claims) : payment_claims[i].status = "created"


-----------------------------------------------------------------------------
(* Delivery of paid leads *)

\* C17: a paid-leads message that Telegram did not take leaves the payment as
\* it is: the claim of every failed delivery is paid, and the step that
\* delivers, sent or not, changes no table.
C17_FailedDeliveryKeepsPayment ==
    /\ [](\A i \in 1..Len(outbox) :
            (outbox[i].kind \in PaidKinds /\ ~outbox[i].delivered)
                => payment_claims[outbox[i].ref].status = "paid")
    /\ [][\A w \in 1..NumWorkers :
            (webhook[w].pc = "deliver" /\ webhook'[w].pc = "idle")
                => UNCHANGED <<listings, lead_requests, payment_claims>>]_vars

\* the paid leads of a claim could not be sent, and the handler has returned
C17_Witness ==
    \E i \in 1..Len(outbox) :
        /\ outbox[i].kind \in PaidKinds
        /\ ~outbox[i].delivered
        /\ InFlight(outbox[i].ref) = {}
        /\ payment_claims[outbox[i].ref].razorpay_payment_id = "pay_1"


\* C18: the paid message of a claim carries at most the lead count of the
\* claim's tier, and it carries the tips exactly when the tier is t2.
C18_TierWindowAndTips ==
    \A i \in 1..Len(outbox) :
        outbox[i].kind \in PaidKinds =>
            LET claim == payment_claims[outbox[i].ref]
            IN  /\ Len(outbox[i].contacts)
                       <= (IF claim.tier = "t1" THEN TIER1_LEADS ELSE TIER2_LEADS)
                /\ (outbox[i].kind = "paid_leads_with_tips") <=> (claim.tier = "t2")


-----------------------------------------------------------------------------
(* Updates the Application dispatches: main() registers three command
   handlers, a chat-member handler and a group text handler, and polls with
   every update type allowed.  An update goes to the first handler whose
   check accepts it; one that no handler accepts is dropped. *)

Handlers == <<"stats_command", "help_command", "handle_start", "handle_bot_added", "handle_message">>

Update(kind, data) == [kind |-> kind, data |-> data]

check_update(handler, update) ==
    CASE handler = "stats_command" -> update.kind = "command" /\ update.data = <<"stats">>
      [] handler = "help_command" -> update.kind = "command" /\ update.data = <<"help">>
      [] handler = "handle_start" -> update.kind = "command" /\ update.data = <<"start">>
      [] handler = "handle_bot_added" -> update.kind = "my_chat_member"
      [] handler = "handle_message" -> update.kind = "group_text"
      [] OTHER -> FALSE

process_update(update) ==
    LET accepting == {i \in 1..Len(Handlers) : check_update(Handlers[i], update)}
    IN  IF accepting = {} THEN "none"
        ELSE Handlers[CHOOSE i \in accepting : \A j \in accepting : i <= j]

\* the admin's button press: callback data approve_<claim id> or reject_<claim id>
AdminDecisions == {"approve", "reject"}

CallbackQuery ==
    /\ \E decision \in AdminDecisions, claim_id \in 1..MaxClaims :
          LET update == Update("callback_query", <<decision, claim_id>>)
          IN  ret' = [op |-> "process_update", update |-> update,
                      handler |-> process_update(update),
                      before |-> payment_claims]
    /\ UNCHANGED now
    /\ store_unchanged
    /\ bot_unchanged

NextAdmin ==
    \/ SavePaymentClaim
    \/ CallUpdatePaymentStatus
    \/ CallbackQuery

SpecAdmin == InitClaims /\ [][NextAdmin]_vars

\* C19: an admin decision on a claim is applied only when the claim is not
\* terminal: approve moves it to approved and delivers the leads to the
\* claimant, reject moves it to rejected and discloses nothing; a decision on
\* a terminal claim changes nothing.
C19_AdminDecisionApplied ==
    (ret.op = "process_update" /\ ret.update.kind = "callback_query"
        /\ ret.update.data[2] \in 1..Len(ret.before))
    => LET decision == ret.update.data[1]
           claim_id == ret.update.data[2]
           was == ret.before[claim_id]
           is == payment_claims[claim_id]
       IN  IF was.status \in Terminal
           THEN is = was
           ELSE IF decision = "approve"
                THEN /\ is.status = "approved"
                     /\ \E m \in 1..Len(outbox) :
                           outbox[m].to = was.user_id /\ outbox[m].kind \in PaidKinds
                ELSE /\ is.status = "rejected"
                     /\ \A m \in 1..Len(outbox) : outbox[m].kind \notin PaidKinds


-----------------------------------------------------------------------------
(* The classifier's ignore gate.  A text is a sequence of code points.  A
   pattern is a tree; Ends(r, s, i) is the set of places where a match of r
   that starts at place i of s can end, so that re's backtracking search
   finds a match exactly when some start has a non-empty set.  The patterns
   are compiled with re.IGNORECASE and without re.MULTILINE.  The classes
   \s, \w and \d are those of the ASCII range. *)

MIN_TEXT_LENGTH == 5

IsSpace(c) == c \in {9, 10, 11, 12, 13, 28, 29, 30, 31, 32}

IsWord(c) == IsDigit(c) \/ (c >= 65 /\ c <= 90) \/ (c >= 97 /\ c <= 122) \/ c = 95

\* str.strip(): white space is taken off both ends
RECURSIVE str_strip(_)
str_strip(s) ==
    IF s # <<>> /\ IsSpace(s[1]) THEN str_strip(Tail(s))
    ELSE IF s # <<>> /\ IsSpace(s[Len(s)]) THEN str_strip(SubSeq(s, 1, Len(s) - 1))
    ELSE s

Lit(c) == [op |-> "lit", c |-> c]
Class(name) == [op |-> "class", name |-> name]
Cat(rs) == [op |-> "cat", rs |-> rs]
Alt(rs) == [op |-> "alt", rs |-> rs]
Star(r) == [op |-> "star", r |-> r]
Plus(r) == Cat(<<r, Star(r)>>)
Opt(r) == Alt(<<r, Cat(<<>>)>>)
Bol == [op |-> "bol"]
Eol == [op |-> "eol"]
WordBoundary == [op |-> "wb"]
Str(w) == Cat([k \in 1..Len(w) |-> Lit(w[k])])
Words(ws) == Alt([k \in 1..Len(ws) |-> Str(ws[k])])

InClass(name, c) ==
    CASE name = "s" -> IsSpace(c)
      [] name = "d" -> IsDigit(c)
      [] name = "D" -> ~IsDigit(c)
      [] name = "w" -> IsWord(c)
      [] name = "any" -> c # 10
      [] name = "6-9" -> c >= 54 /\ c <= 57
      [] name = "s-" -> IsSpace(c) \/ c = 45
      [] name = "s-+" -> IsSpace(c) \/ c = 45 \/ c = 43

WordAt(s, i) == i >= 1 /\ i <= Len(s) /\ IsWord(s[i])

RECURSIVE Ends(_, _, _)
RECURSIVE StarEnds(_, _, _, _)
Ends(r, s, i) ==
    CASE r.op = "lit" ->
            IF i <= Len(s) /\ Lower(s[i]) = Lower(r.c) THEN {i + 1} ELSE {}
      [] r.op = "class" ->
            IF i <= Len(s) /\ InClass(r.name, s[i]) THEN {i + 1} ELSE {}
      [] r.op = "bol" -> IF i = 1 THEN {i} ELSE {}
      [] r.op = "eol" ->
            IF i = Len(s) + 1 \/ (i = Len(s) /\ s[i] = 10) THEN {i} ELSE {}
      [] r.op = "wb" -> IF WordAt(s, i - 1) # WordAt(s, i) THEN {i} ELSE {}
      [] r.op = "cat" ->
            IF r.rs = <<>> THEN {i}
            ELSE UNION {Ends(Cat(Tail(r.rs)), s, j) : j \in Ends(Head(r.rs), s, i)}
      [] r.op = "alt" -> UNION {Ends(r.rs[k], s, i) : k \in 1..Len(r.rs)}
      [] r.op = "star" -> StarEnds(r.r, s, {i}, {i})

StarEnds(r, s, frontier, seen) ==
    LET more == UNION {Ends(r, s, j) : j \in frontier} \ seen
    IN  IF more = {} THEN seen ELSE StarEnds(r, s, more, seen \cup more)

\* pattern.search(text)
search(pattern, text) == \E i \in 1..(Len(text) + 1) : Ends(pattern, text, i) # {}

IGNORE_PATTERNS ==
    << \* ^good\s*(morning|evening|night|afternoon)
       Cat(<<Bol, Str(<<103, 111, 111, 100>>), Star(Class("s")),
             Words(<<<<109, 111, 114, 110, 105, 110, 103>>, <<101, 118, 101, 110, 105, 110, 103>>, <<110, 105, 103, 104, 116>>, <<97, 102, 116, 101, 114, 110, 111, 111, 110>>>>)>>),
       \* ^gm\b   ^ge\b   ^gn\b
       Cat(<<Bol, Str(<<103, 109>>), WordBoundary>>),
       Cat(<<Bol, Str(<<103, 101>>), WordBoundary>>),
       Cat(<<Bol, Str(<<103, 110>>), WordBoundary>>),
       \* ^(hi|hello|hey|hii|helloo)\b
       Cat(<<Bol, Words(<<<<104, 105>>, <<104, 101, 108, 108, 111>>, <<104, 101, 121>>, <<104, 105, 105>>, <<104, 101, 108, 108, 111, 111>>>>), WordBoundary>>),
       \* ^(thanks|thank you|thanku|thnx|ty|thx|thanx)
       Cat(<<Bol, Words(<<<<116, 104, 97, 110, 107, 115>>, <<116, 104, 97, 110, 107, 32, 121, 111, 117>>, <<116, 104, 97, 110, 107, 117>>, <<116, 104, 110, 120>>, <<116, 121>>, <<116, 104, 120>>, <<116, 104, 97, 110, 120>>>>)>>),
       \* ^(ok|okay|k|done|noted|oka|okk)
       Cat(<<Bol, Words(<<<<111, 107>>, <<111, 107, 97, 121>>, <<107>>, <<100, 111, 110, 101>>, <<110, 111, 116, 101, 100>>, <<111, 107, 97>>, <<111, 107, 107>>>>)>>),
       \* ^(yes|no|ya|nahi|haan|han|nope|yep|yup)
       Cat(<<Bol, Words(<<<<121, 101, 115>>, <<110, 111>>, <<121, 97>>, <<110, 97, 104, 105>>, <<104, 97, 97, 110>>, <<104, 97, 110>>, <<110, 111, 112, 101>>, <<121, 101, 112>>, <<121, 117, 112>>>>)>>),
       \* ^(happy|wish|wishing).*(birthday|anniversary|diwali|holi|eid|christmas)
       Cat(<<Bol, Words(<<<<104, 97, 112, 112, 121>>, <<119, 105, 115, 104>>, <<119, 105, 115, 104, 105, 110, 103>>>>), Star(Class("any")),
             Words(<<<<98, 105, 114, 116, 104, 100, 97, 121>>, <<97, 110, 110, 105, 118, 101, 114, 115, 97, 114, 121>>, <<100, 105, 119, 97, 108, 105>>, <<104, 111, 108, 105>>, <<101, 105, 100>>, <<99, 104, 114, 105, 115, 116, 109, 97, 115>>>>)>>),
       \* ^(congratulations|congrats|congos)
       Cat(<<Bol, Words(<<<<99, 111, 110, 103, 114, 97, 116, 117, 108, 97, 116, 105, 111, 110, 115>>, <<99, 111, 110, 103, 114, 97, 116, 115>>, <<99, 111, 110, 103, 111, 115>>>>)>>),
       \* ^\+\d
       Cat(<<Bol, Lit(43), Class("d")>>),
       \* ^https?://
       Cat(<<Bol, Str(<<104, 116, 116, 112>>), Opt(Lit(115)), Str(<<58, 47, 47>>)>>),
       \* ^@\w+$
       Cat(<<Bol, Lit(64), Plus(Class("w")), Eol>>),
       \* ^(lol|haha|hehe|U+1F602|U+1F923|U+1F44D|U+1F64F)+$
       Cat(<<Bol, Plus(Alt(<<Str(<<108, 111, 108>>), Str(<<104, 97, 104, 97>>), Str(<<104, 101, 104, 101>>), Lit(128514),
                             Lit(129315), Lit(128077), Lit(128591)>>)), Eol>>),
       \* ^(ji|jee|hmm|hmmm|accha|achha|sahi|theek|thik)\b
       Cat(<<Bol, Words(<<<<106, 105>>, <<106, 101, 101>>, <<104, 109, 109>>, <<104, 109, 109, 109>>, <<97, 99, 99, 104, 97>>, <<97, 99, 104, 104, 97>>, <<115, 97, 104, 105>>, <<116, 104, 101, 101, 107>>, <<116, 104, 105, 107>>>>), WordBoundary>>) >>

\* the gate trims the text, counts it and searches the patterns in the
\* trimmed text
should_ignore_untrimmed(text) ==
    \/ Len(text) < MIN_TEXT_LENGTH
    \/ \E k \in 1..Len(IGNORE_PATTERNS) : search(IGNORE_PATTERNS[k], text)

should_ignore(text) ==
    LET trimmed == str_strip(text)
    IN  \/ Len(trimmed) < MIN_TEXT_LENGTH
        \/ \E k \in 1..Len(IGNORE_PATTERNS) : search(IGNORE_PATTERNS[k], trimmed)

-----------------------------------------------------------------------------
(* Text operations of the two classifiers *)

Upper(c) == IF c >= 97 /\ c <= 122 THEN c - 32 ELSE c

str_lower(s) == [k \in 1..Len(s) |-> Lower(s[k])]

str_upper(s) == [k \in 1..Len(s) |-> Upper(s[k])]

\* p in s
Contains(s, p) == \E i \in 0..(Len(s) - Len(p)) : \A j \in 1..Len(p) : s[i + j] = p[j]

\* s.find(c) + 1
IndexOf(s, c) ==
    LET at == {i \in 1..Len(s) : s[i] = c}
    IN  IF at = {} THEN 0 ELSE CHOOSE i \in at : \A j \in at : i <= j

RECURSIVE str_split(_, _)
str_split(s, c) ==
    LET i == IndexOf(s, c)
    IN  IF i = 0 THEN <<s>>
        ELSE <<SubSeq(s, 1, i - 1)>> \o str_split(SubSeq(s, i + 1, Len(s)), c)

Repeat(r, n) == Cat([k \in 1..n |-> r])

\* re.search(pattern, text).group(): the match that starts first; <<0>> stands
\* for no match.  Of the ends a start allows the greedy quantifiers of the
\* patterns used here take the last.
group(pattern, text) ==
    LET starts == {i \in 1..(Len(text) + 1) : Ends(pattern, text, i) # {}}
    IN  IF starts = {} THEN SqlNullText
        ELSE LET i == CHOOSE a \in starts : \A b \in starts : a <= b
                 ends == Ends(pattern, text, i)
                 j == CHOOSE a \in ends : \A b \in ends : a >= b
             IN  SubSeq(text, i, j - 1)

\* re.sub(<one character of the class>, '', text)
re_sub(class, text) == SelectSeq(text, LAMBDA c : ~InClass(class, c))

\* the None of an Optional[dict]; the None of an Optional[str] is SqlNullText
None == [none |-> TRUE]

\* \b[6-9]\d{9}\b
TenDigits == Cat(<<WordBoundary, Class("6-9"), Repeat(Class("d"), 9), WordBoundary>>)

\* MessageClassifier._extract_contact: \b[6-9]\d{9}\b, \b\+91\s*[6-9]\d{9}\b,
\* \b91\s*[6-9]\d{9}\b; the digits of the first pattern that matches, cut to
\* the last ten
CONTACT_PATTERNS ==
    <<TenDigits,
      Cat(<<WordBoundary, Lit(43), Str(<<57, 49>>), Star(Class("s")), Class("6-9"),
            Repeat(Class("d"), 9), WordBoundary>>),
      Cat(<<WordBoundary, Str(<<57, 49>>), Star(Class("s")), Class("6-9"),
            Repeat(Class("d"), 9), WordBoundary>>)>>

extract_contact_strips_91(text) ==
    LET hits == {k \in 1..Len(CONTACT_PATTERNS) : search(CONTACT_PATTERNS[k], text)}
    IN  IF hits = {} THEN SqlNullText
        ELSE LET k == CHOOSE a \in hits : \A b \in hits : a <= b
                 number == re_sub("D", group(CONTACT_PATTERNS[k], text))
             IN  IF StartsWith(number, <<57, 49>>)
                 THEN SubSeq(number, 3, Len(number))
                 ELSE number

extract_contact(text) ==
    LET hits == {k \in 1..Len(CONTACT_PATTERNS) : search(CONTACT_PATTERNS[k], text)}
    IN  IF hits = {} THEN SqlNullText
        ELSE LET k == CHOOSE a \in hits : \A b \in hits : a <= b
                 number == re_sub("D", group(CONTACT_PATTERNS[k], text))
             IN  IF Len(number) > 10
                 THEN SubSeq(number, Len(number) - 9, Len(number))
                 ELSE number

\* LLMClassifier._extract_phone: \b[6-9]\d{9}\b, \b\+91[\s-]?[6-9]\d{9}\b,
\* \b91[\s-]?[6-9]\d{9}\b; the first match without blanks, "-" and "+"
PHONE_PATTERNS ==
    <<TenDigits,
      Cat(<<WordBoundary, Lit(43), Str(<<57, 49>>), Opt(Class("s-")), Class("6-9"),
            Repeat(Class("d"), 9), WordBoundary>>),
      Cat(<<WordBoundary, Str(<<57, 49>>), Opt(Class("s-")), Class("6-9"),
            Repeat(Class("d"), 9), WordBoundary>>)>>

extract_phone(text) ==
    LET hits == {k \in 1..Len(PHONE_PATTERNS) : search(PHONE_PATTERNS[k], text)}
    IN  IF hits = {} THEN SqlNullText
        ELSE LET k == CHOOSE a \in hits : \A b \in hits : a <= b
             IN  re_sub("s-+", group(PHONE_PATTERNS[k], text))

-----------------------------------------------------------------------------
(* The remote classifier.  What the Groq call gives is an input: an error
   (the call raises, or the answer has no text) or the text of the answer. *)

LLM_CATEGORIES ==
    {<<112, 114, 111, 112, 101, 114, 116, 121>>, <<102, 117, 114, 110, 105, 116, 117, 114, 101>>, <<109, 97, 105, 100>>, <<112, 108, 117, 109, 98, 101, 114>>, <<101, 108, 101, 99, 116, 114, 105, 99, 105, 97, 110>>,
     <<99, 97, 114, 112, 101, 110, 116, 101, 114>>, <<100, 114, 105, 118, 101, 114>>, <<97, 99, 95, 114, 101, 112, 97, 105, 114>>, <<116, 117, 116, 111, 114>>, <<112, 97, 99, 107, 101, 114, 115, 95, 109, 111, 118, 101, 114, 115>>,
     <<118, 101, 104, 105, 99, 108, 101>>, <<112, 101, 115, 116, 95, 99, 111, 110, 116, 114, 111, 108>>, <<112, 97, 105, 110, 116, 101, 114>>, <<115, 101, 99, 117, 114, 105, 116, 121, 95, 103, 117, 97, 114, 100>>}

\* data[key.strip().upper()] = value.strip().lower() for every line with a colon
RECURSIVE parse_lines(_, _)
parse_lines(lines, data) ==
    IF lines = <<>> THEN data
    ELSE LET line == Head(lines)
             i == IndexOf(line, 58)
         IN  parse_lines(Tail(lines),
                 IF i = 0 THEN data
                 ELSE Append(data,
                          <<str_upper(str_strip(SubSeq(line, 1, i - 1))),
                            str_lower(str_strip(SubSeq(line, i + 1, Len(line))))>>))

\* data.get(key, default): the value of the last line with this key
data_get(data, key, default) ==
    LET at == {k \in 1..Len(data) : data[k][1] = key}
    IN  IF at = {} THEN default
        ELSE data[CHOOSE a \in at : \A b \in at : a >= b][2]

parsed_data(response) == parse_lines(str_split(str_strip(response), 10), <<>>)

parse_response_any_category(response) ==
    LET data == parsed_data(response)
        listing_type == data_get(data, <<84, 89, 80, 69>>, <<113, 117, 101, 114, 121>>)
        subcategory == data_get(data, <<83, 85, 66, 67, 65, 84, 69, 71, 79, 82, 89>>, <<110, 111, 110, 101>>)
        contact == data_get(data, <<67, 79, 78, 84, 65, 67, 84>>, <<110, 111, 110, 101>>)
        property_type == data_get(data, <<80, 82, 79, 80, 69, 82, 84, 89, 95, 84, 89, 80, 69>>, <<110, 111, 110, 101>>)
        gender_preference == data_get(data, <<71, 69, 78, 68, 69, 82, 95, 80, 82, 69, 70, 69, 82, 69, 78, 67, 69>>, <<110, 111, 110, 101>>)
    IN  IF data_get(data, <<67, 65, 84, 69, 71, 79, 82, 89>>, <<105, 103, 110, 111, 114, 101>>) = <<105, 103, 110, 111, 114, 101>> THEN None
        ELSE [category |-> data_get(data, <<67, 65, 84, 69, 71, 79, 82, 89>>, <<105, 103, 110, 111, 114, 101>>),
              subcategory |-> IF subcategory = <<110, 111, 110, 101>> THEN SqlNullText ELSE subcategory,
              listing_type |-> IF listing_type \in {<<111, 102, 102, 101, 114>>, <<113, 117, 101, 114, 121>>}
                               THEN listing_type ELSE <<113, 117, 101, 114, 121>>,
              contact |-> IF contact = <<110, 111, 110, 101>>
                          THEN extract_phone(data_get(data, <<111, 114, 105, 103, 105, 110, 97, 108, 95, 116, 101, 120, 116>>, <<>>))
                          ELSE contact,
              property_type |-> IF property_type \in {<<115, 97, 108, 101>>, <<114, 101, 110, 116>>}
                                THEN property_type ELSE SqlNullText,
              gender_preference |-> IF gender_preference \in {<<109, 97, 108, 101>>, <<102, 101, 109, 97, 108, 101>>}
                                    THEN gender_preference ELSE SqlNullText]

parse_response(response) ==
    LET data == parsed_data(response)
        category == data_get(data, <<67, 65, 84, 69, 71, 79, 82, 89>>, <<105, 103, 110, 111, 114, 101>>)
        listing_type == data_get(data, <<84, 89, 80, 69>>, <<113, 117, 101, 114, 121>>)
        subcategory == data_get(data, <<83, 85, 66, 67, 65, 84, 69, 71, 79, 82, 89>>, <<110, 111, 110, 101>>)
        contact == data_get(data, <<67, 79, 78, 84, 65, 67, 84>>, <<110, 111, 110, 101>>)
        property_type == data_get(data, <<80, 82, 79, 80, 69, 82, 84, 89, 95, 84, 89, 80, 69>>, <<110, 111, 110, 101>>)
        gender_preference == data_get(data, <<71, 69, 78, 68, 69, 82, 95, 80, 82, 69, 70, 69, 82, 69, 78, 67, 69>>, <<110, 111, 110, 101>>)
    IN  IF category = <<105, 103, 110, 111, 114, 101>> \/ category \notin LLM_CATEGORIES THEN None
        ELSE [category |-> category,
              subcategory |-> IF subcategory = <<110, 111, 110, 101>> THEN SqlNullText ELSE subcategory,
              listing_type |-> IF listing_type \in {<<111, 102, 102, 101, 114>>, <<113, 117, 101, 114, 121>>}
                               THEN listing_type ELSE <<113, 117, 101, 114, 121>>,
              contact |-> IF contact = <<110, 111, 110, 101>>
                          THEN extract_phone(data_get(data, <<111, 114, 105, 103, 105, 110, 97, 108, 95, 116, 101, 120, 116>>, <<>>))
                          ELSE contact,
              property_type |-> IF property_type \in {<<115, 97, 108, 101>>, <<114, 101, 110, 116>>}
                                THEN property_type ELSE SqlNullText,
              gender_preference |-> IF gender_preference \in {<<109, 97, 108, 101>>, <<102, 101, 109, 97, 108, 101>>}
                                    THEN gender_preference ELSE SqlNullText]

Raised == [error |-> TRUE, content |-> <<>>]
Answer(content) == [error |-> FALSE, content |-> content]

\* the property type taken from the answer as the model wrote it
llm_classify_raw_property_type(text, remote) ==
    IF remote.error \/ parse_response(str_strip(remote.content)) = None THEN None
    ELSE [parse_response(str_strip(remote.content)) EXCEPT
             !.property_type = data_get(parsed_data(str_strip(remote.content)),
                                        <<80, 82, 79, 80, 69, 82, 84, 89, 95, 84, 89, 80, 69>>, <<110, 111, 110, 101>>)]

\* LLMClassifier.classify with a client: an exception of the call or of the
\* parse is caught and None returned
llm_classify(text, remote) ==
    IF remote.error THEN None ELSE parse_response(str_strip(remote.content))

-----------------------------------------------------------------------------
(* The keyword classifier.  Keywords are searched in the lowered text as
   substrings; the subcategory patterns are searched in the lowered text
   too, so that matching their letters without regard to case changes
   nothing. *)

CATEGORIES ==
    <<
     [name |-> <<112, 114, 111, 112, 101, 114, 116, 121>>,  \* property
      offer_keywords |-> <<
          <<115, 101, 108, 108, 105, 110, 103, 32, 102, 108, 97, 116>>,  \* selling flat
          <<102, 108, 97, 116, 32, 102, 111, 114, 32, 115, 97, 108, 101>>,  \* flat for sale
          <<104, 111, 117, 115, 101, 32, 102, 111, 114, 32, 115, 97, 108, 101>>,  \* house for sale
          <<97, 112, 97, 114, 116, 109, 101, 110, 116, 32, 102, 111, 114, 32, 115, 97, 108, 101>>,  \* apartment for sale
          <<102, 111, 114, 32, 114, 101, 110, 116>>,  \* for rent
          <<111, 110, 32, 114, 101, 110, 116>>,  \* on rent
          <<97, 118, 97, 105, 108, 97, 98, 108, 101, 32, 102, 111, 114, 32, 114, 101, 110, 116>>,  \* available for rent
          <<102, 108, 97, 116, 32, 97, 118, 97, 105, 108, 97, 98, 108, 101>>,  \* flat available
          <<98, 104, 107, 32, 97, 118, 97, 105, 108, 97, 98, 108, 101>>,  \* bhk available
          <<114, 107, 32, 97, 118, 97, 105, 108, 97, 98, 108, 101>>,  \* rk available
          <<112, 103, 32, 97, 118, 97, 105, 108, 97, 98, 108, 101>>,  \* pg available
          <<115, 101, 108, 108, 105, 110, 103, 32, 109, 121>>,  \* selling my
          <<119, 97, 110, 116, 32, 116, 111, 32, 115, 101, 108, 108>>,  \* want to sell
          <<115, 101, 108, 108, 105, 110, 103, 32, 49, 98, 104, 107>>,  \* selling 1bhk
          <<115, 101, 108, 108, 105, 110, 103, 32, 50, 98, 104, 107>>,  \* selling 2bhk
          <<115, 101, 108, 108, 105, 110, 103, 32, 51, 98, 104, 107>>,  \* selling 3bhk
          <<97, 112, 97, 114, 116, 109, 101, 110, 116, 32, 97, 118, 97, 105, 108, 97, 98, 108, 101>>,  \* apartment available
          <<104, 111, 117, 115, 101, 32, 97, 118, 97, 105, 108, 97, 98, 108, 101>>,  \* house available
          <<114, 111, 111, 109, 32, 97, 118, 97, 105, 108, 97, 98, 108, 101>>,  \* room available
          <<112, 114, 111, 112, 101, 114, 116, 121, 32, 102, 111, 114, 32, 115, 97, 108, 101>>,  \* property for sale
          <<102, 108, 97, 116, 32, 111, 110, 32, 115, 97, 108, 101>>,  \* flat on sale
          <<104, 111, 109, 101, 32, 102, 111, 114, 32, 115, 97, 108, 101>>,  \* home for sale
          <<115, 101, 108, 105, 110, 103, 32, 102, 108, 97, 116>>,  \* seling flat
          <<115, 101, 108, 108, 105, 110, 32, 102, 108, 97, 116>>,  \* sellin flat
          <<102, 108, 97, 97, 116, 32, 102, 111, 114, 32, 115, 97, 108, 101>>,  \* flaat for sale
          <<97, 112, 112, 97, 114, 116, 109, 101, 110, 116>>,  \* appartment
          <<97, 118, 97, 108, 97, 98, 108, 101, 32, 102, 111, 114, 32, 114, 101, 110, 116>>,  \* avalable for rent
          <<97, 118, 97, 105, 108, 98, 108, 101>>,  \* availble
          <<97, 118, 105, 97, 108, 97, 98, 108, 101>>,  \* avialable
          <<97, 118, 97, 105, 108, 97, 98, 101, 108>>,  \* availabel
          <<102, 108, 97, 116, 32, 98, 101, 99, 104, 110, 97>>,  \* flat bechna
          <<103, 104, 97, 114, 32, 98, 101, 99, 104, 110, 97>>,  \* ghar bechna
          <<107, 105, 114, 97, 121, 101, 32, 112, 97, 114>>,  \* kiraye par
          <<114, 101, 110, 116, 32, 112, 101>>,  \* rent pe
          <<98, 101, 99, 104, 110, 97, 32, 104, 97, 105>>,  \* bechna hai
          <<102, 108, 97, 116, 32, 107, 104, 97, 108, 105>>,  \* flat khali
          <<107, 97, 109, 114, 97, 32, 107, 104, 97, 108, 105>>,  \* kamra khali
          <<97, 118, 97, 105, 108, 97, 98, 108, 101, 32, 104, 97, 105>>,  \* available hai
          <<98, 101, 99, 104, 32, 114, 97, 104, 97>>,  \* bech raha
          <<98, 101, 99, 104, 32, 114, 97, 104, 105>>,  \* bech rahi
          <<109, 97, 107, 97, 110, 32, 98, 101, 99, 104, 110, 97>>,  \* makan bechna
          <<103, 104, 97, 114, 32, 98, 101, 99, 104, 110, 97, 32, 104, 97, 105>>,  \* ghar bechna hai
          <<102, 108, 97, 116, 32, 98, 101, 99, 104, 32, 114, 97, 104, 97>>,  \* flat bech raha
          <<102, 108, 97, 116, 101, 32, 98, 101, 99, 104, 110, 97>>,  \* flate bechna
          <<98, 101, 99, 104, 97, 110, 97, 32, 104, 97, 105>>,  \* bechana hai
          <<98, 101, 99, 104, 104, 110, 97>>,  \* bechhna
          <<107, 105, 114, 97, 121, 97, 32, 112, 97, 114>>  \* kiraya par
       >>,
      query_keywords |-> <<
          <<108, 111, 111, 107, 105, 110, 103, 32, 102, 111, 114, 32, 102, 108, 97, 116>>,  \* looking for flat
          <<110, 101, 101, 100, 32, 102, 108, 97, 116>>,  \* need flat
          <<119, 97, 110, 116, 32, 116, 111, 32, 98, 117, 121>>,  \* want to buy
          <<119, 97, 110, 116, 32, 102, 108, 97, 116>>,  \* want flat
          <<108, 111, 111, 107, 105, 110, 103, 32, 102, 111, 114, 32, 104, 111, 117, 115, 101>>,  \* looking for house
          <<110, 101, 101, 100, 32, 104, 111, 117, 115, 101>>,  \* need house
          <<119, 97, 110, 116, 32, 116, 111, 32, 114, 101, 110, 116>>,  \* want to rent
          <<110, 101, 101, 100, 32, 111, 110, 32, 114, 101, 110, 116>>,  \* need on rent
          <<97, 110, 121, 111, 110, 101, 32, 115, 101, 108, 108, 105, 110, 103, 32, 102, 108, 97, 116>>,  \* anyone selling flat
          <<97, 110, 121, 32, 102, 108, 97, 116, 32, 97, 118, 97, 105, 108, 97, 98, 108, 101>>,  \* any flat available
          <<108, 111, 111, 107, 105, 110, 103, 32, 102, 111, 114, 32, 98, 104, 107>>,  \* looking for bhk
          <<108, 111, 111, 107, 105, 110, 103, 32, 102, 111, 114, 32, 49, 98, 104, 107>>,  \* looking for 1bhk
          <<108, 111, 111, 107, 105, 110, 103, 32, 102, 111, 114, 32, 50, 98, 104, 107>>,  \* looking for 2bhk
          <<108, 111, 111, 107, 105, 110, 103, 32, 102, 111, 114, 32, 51, 98, 104, 107>>,  \* looking for 3bhk
          <<110, 101, 101, 100, 32, 49, 98, 104, 107>>,  \* need 1bhk
          <<110, 101, 101, 100, 32, 50, 98, 104, 107>>,  \* need 2bhk
          <<110, 101, 101, 100, 32, 51, 98, 104, 107>>,  \* need 3bhk
          <<119, 97, 110, 116, 32, 49, 98, 104, 107>>,  \* want 1bhk
          <<119, 97, 110, 116, 32, 50, 98, 104, 107>>,  \* want 2bhk
          <<119, 97, 110, 116, 32, 51, 98, 104, 107>>,  \* want 3bhk
          <<115, 101, 97, 114, 99, 104, 105, 110, 103, 32, 102, 111, 114, 32, 102, 108, 97, 116>>,  \* searching for flat
          <<114, 101, 113, 117, 105, 114, 101, 32, 102, 108, 97, 116>>,  \* require flat
          <<102, 108, 97, 116, 32, 114, 101, 113, 117, 105, 114, 101, 100>>,  \* flat required
          <<104, 111, 117, 115, 101, 32, 114, 101, 113, 117, 105, 114, 101, 100>>,  \* house required
          <<110, 101, 101, 100, 32, 97, 112, 97, 114, 116, 109, 101, 110, 116>>,  \* need apartment
          <<108, 111, 111, 107, 105, 110, 103, 32, 102, 111, 114, 32, 97, 112, 97, 114, 116, 109, 101, 110, 116>>,  \* looking for apartment
          <<119, 97, 110, 116, 32, 97, 112, 97, 114, 116, 109, 101, 110, 116>>,  \* want apartment
          <<110, 101, 101, 100, 32, 114, 111, 111, 109>>,  \* need room
          <<108, 111, 111, 107, 105, 110, 103, 32, 102, 111, 114, 32, 114, 111, 111, 109>>,  \* looking for room
          <<119, 97, 110, 116, 32, 114, 111, 111, 109>>,  \* want room
          <<114, 111, 111, 109, 32, 114, 101, 113, 117, 105, 114, 101, 100>>,  \* room required
          <<97, 110, 121, 32, 49, 98, 104, 107>>,  \* any 1bhk
          <<97, 110, 121, 32, 50, 98, 104, 107>>,  \* any 2bhk
          <<97, 110, 121, 32, 51, 98, 104, 107>>,  \* any 3bhk
          <<107, 111, 105, 32, 98, 104, 105, 32, 102, 108, 97, 116>>,  \* koi bhi flat
          <<108, 111, 107, 107, 105, 110, 103, 32, 102, 111, 114>>,  \* lokking for
          <<108, 111, 107, 105, 110, 103, 32, 102, 111, 114>>,  \* loking for
          <<108, 111, 111, 107, 110, 103, 32, 102, 111, 114>>,  \* lookng for
          <<115, 101, 114, 99, 104, 105, 110, 103>>,  \* serching
          <<115, 101, 97, 114, 99, 105, 110, 103>>,  \* searcing
          <<110, 101, 100, 100, 32, 102, 108, 97, 116>>,  \* nedd flat
          <<110, 101, 100, 32, 102, 108, 97, 116>>,  \* ned flat
          <<114, 101, 113, 117, 114, 105, 101, 100>>,  \* requried
          <<114, 101, 113, 117, 114, 101, 100>>,  \* requred
          <<114, 101, 113, 117, 105, 114, 100>>,  \* requird
          <<102, 108, 97, 116, 32, 99, 104, 97, 104, 105, 121, 101>>,  \* flat chahiye
          <<103, 104, 97, 114, 32, 99, 104, 97, 104, 105, 121, 101>>,  \* ghar chahiye
          <<114, 111, 111, 109, 32, 99, 104, 97, 104, 105, 121, 101>>,  \* room chahiye
          <<107, 97, 109, 114, 97, 32, 99, 104, 97, 104, 105, 121, 101>>,  \* kamra chahiye
          <<107, 105, 114, 97, 121, 101, 32, 112, 101, 32, 99, 104, 97, 104, 105, 121, 101>>,  \* kiraye pe chahiye
          <<114, 101, 110, 116, 32, 112, 101, 32, 99, 104, 97, 104, 105, 121, 101>>,  \* rent pe chahiye
          <<107, 111, 105, 32, 102, 108, 97, 116>>,  \* koi flat
          <<107, 111, 105, 32, 103, 104, 97, 114>>,  \* koi ghar
          <<49, 98, 104, 107, 32, 99, 104, 97, 104, 105, 121, 101>>,  \* 1bhk chahiye
          <<50, 98, 104, 107, 32, 99, 104, 97, 104, 105, 121, 101>>,  \* 2bhk chahiye
          <<51, 98, 104, 107, 32, 99, 104, 97, 104, 105, 121, 101>>,  \* 3bhk chahiye
          <<102, 108, 97, 116, 32, 108, 101, 110, 97>>,  \* flat lena
          <<103, 104, 97, 114, 32, 108, 101, 110, 97>>,  \* ghar lena
          <<107, 97, 109, 114, 97, 32, 108, 101, 110, 97>>,  \* kamra lena
          <<109, 97, 107, 97, 110, 32, 99, 104, 97, 104, 105, 121, 101>>,  \* makan chahiye
          <<99, 104, 104, 97, 105, 121, 101>>,  \* chhaiye
          <<99, 104, 97, 104, 101, 121, 101>>,  \* chaheye
          <<99, 104, 97, 104, 121, 101>>,  \* chahye
          <<99, 104, 97, 121, 105, 101>>,  \* chayie
          <<99, 97, 104, 105, 121, 101>>,  \* cahiye
          <<99, 104, 97, 105, 104, 121, 101>>  \* chaihye
       >>,
      subcategory_patterns |-> <<
          Cat(<<Cat(<<Class("d")>>), Star(Class("s")), Lit(98), Lit(104), Lit(107)>>),  \* (\d)\s*bhk
          Cat(<<Cat(<<Class("d")>>), Star(Class("s")), Lit(114), Lit(107)>>),  \* (\d)\s*rk
          Str(<<115, 116, 117, 100, 105, 111>>),  \* studio
          Str(<<112, 101, 110, 116, 104, 111, 117, 115, 101>>),  \* penthouse
          Str(<<100, 117, 112, 108, 101, 120>>),  \* duplex
          Cat(<<Lit(49), Star(Class("s")), Lit(98), Lit(101), Lit(100)>>),  \* 1\s*bed
          Cat(<<Lit(50), Star(Class("s")), Lit(98), Lit(101), Lit(100)>>),  \* 2\s*bed
          Cat(<<Lit(51), Star(Class("s")), Lit(98), Lit(101), Lit(100)>>),  \* 3\s*bed
          Str(<<102, 108, 97, 116>>),  \* flat
          Str(<<97, 112, 97, 114, 116, 109, 101, 110, 116>>)  \* apartment
       >>],
     [name |-> <<102, 117, 114, 110, 105, 116, 117, 114, 101>>,  \* furniture
      offer_keywords |-> <<
          <<115, 101, 108, 108, 105, 110, 103, 32, 115, 111, 102, 97>>,  \* selling sofa
          <<111, 108, 100, 32, 115, 111, 102, 97>>,  \* old sofa
          <<117, 115, 101, 100, 32, 115, 111, 102, 97>>,  \* used sofa
          <<115, 111, 102, 97, 32, 102, 111, 114, 32, 115, 97, 108, 101>>,  \* sofa for sale
          <<115, 101, 108, 108, 105, 110, 103, 32, 116, 97, 98, 108, 101>>,  \* selling table
          <<111, 108, 100, 32, 116, 97, 98, 108, 101>>,  \* old table
          <<117, 115, 101, 100, 32, 116, 97, 98, 108, 101>>,  \* used table
          <<116, 97, 98, 108, 101, 32, 102, 111, 114, 32, 115, 97, 108, 101>>,  \* table for sale
          <<115, 101, 108, 108, 105, 110, 103, 32, 98, 101, 100>>,  \* selling bed
          <<111, 108, 100, 32, 98, 101, 100>>,  \* old bed
          <<117, 115, 101, 100, 32, 98, 101, 100>>,  \* used bed
          <<98, 101, 100, 32, 102, 111, 114, 32, 115, 97, 108, 101>>,  \* bed for sale
          <<115, 101, 108, 108, 105, 110, 103, 32, 102, 114, 105, 100, 103, 101>>,  \* selling fridge
          <<111, 108, 100, 32, 102, 114, 105, 100, 103, 101>>,  \* old fridge
          <<117, 115, 101, 100, 32, 102, 114, 105, 100, 103, 101>>,  \* used fridge
          <<102, 114, 105, 100, 103, 101, 32, 102, 111, 114, 32, 115, 97, 108, 101>>,  \* fridge for sale
          <<115, 101, 108, 108, 105, 110, 103, 32, 119, 97, 115, 104, 105, 110, 103, 32, 109, 97, 99, 104, 105, 110, 101>>,  \* selling washing machine
          <<111, 108, 100, 32, 119, 97, 115, 104, 105, 110, 103, 32, 109, 97, 99, 104, 105, 110, 101>>,  \* old washing machine
          <<117, 115, 101, 100, 32, 97, 99>>,  \* used ac
          <<102, 117, 114, 110, 105, 116, 117, 114, 101, 32, 102, 111, 114, 32, 115, 97, 108, 101>>,  \* furniture for sale
          <<115, 101, 108, 108, 105, 110, 103, 32, 102, 117, 114, 110, 105, 116, 117, 114, 101>>,  \* selling furniture
          <<117, 115, 101, 100, 32, 102, 117, 114, 110, 105, 116, 117, 114, 101>>,  \* used furniture
          <<115, 101, 108, 108, 105, 110, 103, 32, 99, 104, 97, 105, 114>>,  \* selling chair
          <<111, 108, 100, 32, 99, 104, 97, 105, 114>>,  \* old chair
          <<115, 101, 108, 108, 105, 110, 103, 32, 97, 108, 109, 105, 114, 97, 104>>,  \* selling almirah
          <<115, 101, 108, 108, 105, 110, 103, 32, 119, 97, 114, 100, 114, 111, 98, 101>>,  \* selling wardrobe
          <<115, 101, 108, 108, 105, 110, 103, 32, 116, 118>>,  \* selling tv
          <<111, 108, 100, 32, 116, 118>>,  \* old tv
          <<117, 115, 101, 100, 32, 116, 118>>,  \* used tv
          <<116, 118, 32, 102, 111, 114, 32, 115, 97, 108, 101>>,  \* tv for sale
          <<115, 101, 108, 108, 105, 110, 103, 32, 109, 97, 116, 116, 114, 101, 115, 115>>,  \* selling mattress
          <<111, 108, 100, 32, 109, 97, 116, 116, 114, 101, 115, 115>>,  \* old mattress
          <<117, 115, 101, 100, 32, 109, 97, 116, 116, 114, 101, 115, 115>>,  \* used mattress
          <<115, 101, 108, 108, 105, 110, 103, 32, 100, 105, 110, 105, 110, 103, 32, 116, 97, 98, 108, 101>>,  \* selling dining table
          <<100, 105, 110, 105, 110, 103, 32, 115, 101, 116, 32, 102, 111, 114, 32, 115, 97, 108, 101>>,  \* dining set for sale
          <<115, 101, 108, 105, 110, 103, 32, 115, 111, 102, 97>>,  \* seling sofa
          <<115, 111, 102, 97, 97>>,  \* sofaa
          <<116, 97, 98, 101, 108>>,  \* tabel
          <<102, 114, 101, 105, 100, 103, 101>>,  \* freidge
          <<102, 114, 105, 103, 101>>,  \* frige
          <<102, 114, 105, 100, 103>>,  \* fridg
          <<102, 117, 114, 110, 116, 117, 114, 101>>,  \* furnture
          <<102, 117, 114, 110, 105, 116, 114, 101>>,  \* furnitre
          <<119, 97, 115, 104, 110, 103, 32, 109, 97, 99, 104, 105, 110, 101>>,  \* washng machine
          <<97, 108, 109, 105, 114, 97>>,  \* almira
          <<97, 108, 109, 97, 105, 114, 97>>,  \* almaira
          <<115, 111, 102, 97, 32, 98, 101, 99, 104, 110, 97>>,  \* sofa bechna
          <<116, 97, 98, 108, 101, 32, 98, 101, 99, 104, 110, 97>>,  \* table bechna
          <<98, 101, 100, 32, 98, 101, 99, 104, 110, 97>>,  \* bed bechna
          <<102, 114, 105, 100, 103, 101, 32, 98, 101, 99, 104, 110, 97>>,  \* fridge bechna
          <<112, 117, 114, 97, 110, 97, 32, 115, 111, 102, 97>>,  \* purana sofa
          <<112, 117, 114, 97, 110, 97, 32, 116, 97, 98, 108, 101>>,  \* purana table
          <<112, 117, 114, 97, 110, 97, 32, 98, 101, 100>>,  \* purana bed
          <<102, 117, 114, 110, 105, 116, 117, 114, 101, 32, 98, 101, 99, 104, 110, 97>>,  \* furniture bechna
          <<107, 117, 114, 115, 105, 32, 98, 101, 99, 104, 110, 97>>,  \* kursi bechna
          <<103, 97, 100, 100, 97, 32, 98, 101, 99, 104, 110, 97>>,  \* gadda bechna
          <<116, 118, 32, 98, 101, 99, 104, 110, 97>>,  \* tv bechna
          <<97, 108, 109, 97, 114, 105, 32, 98, 101, 99, 104, 110, 97>>  \* almari bechna
       >>,
      query_keywords |-> <<
          <<110, 101, 101, 100, 32, 115, 111, 102, 97>>,  \* need sofa
          <<108, 111, 111, 107, 105, 110, 103, 32, 102, 111, 114, 32, 115, 111, 102, 97>>,  \* looking for sofa
          <<119, 97, 110, 116, 32, 115, 111, 102, 97>>,  \* want sofa
          <<97, 110, 121, 111, 110, 101, 32, 115, 101, 108, 108, 105, 110, 103, 32, 115, 111, 102, 97>>,  \* anyone selling sofa
          <<110, 101, 101, 100, 32, 116, 97, 98, 108, 101>>,  \* need table
          <<108, 111, 111, 107, 105, 110, 103, 32, 102, 111, 114, 32, 116, 97, 98, 108, 101>>,  \* looking for table
          <<119, 97, 110, 116, 32, 116, 97, 98, 108, 101>>,  \* want table
          <<97, 110, 121, 111, 110, 101, 32, 115, 101, 108, 108, 105, 110, 103, 32, 116, 97, 98, 108, 101>>,  \* anyone selling table
          <<110, 101, 101, 100, 32, 98, 101, 100>>,  \* need bed
          <<108, 111, 111, 107, 105, 110, 103, 32, 102, 111, 114, 32, 98, 101, 100>>,  \* looking for bed
          <<119, 97, 110, 116, 32, 98, 101, 100>>,  \* want bed
          <<97, 110, 121, 111, 110, 101, 32, 115, 101, 108, 108, 105, 110, 103, 32, 98, 101, 100>>,  \* anyone selling bed
          <<110, 101, 101, 100, 32, 102, 114, 105, 100, 103, 101>>,  \* need fridge
          <<108, 111, 111, 107, 105, 110, 103, 32, 102, 111, 114, 32, 102, 114, 105, 100, 103, 101>>,  \* looking for fridge
          <<119, 97, 110, 116, 32, 102, 114, 105, 100, 103, 101>>,  \* want fridge
          <<110, 101, 101, 100, 32, 102, 117, 114, 110, 105, 116, 117, 114, 101>>,  \* need furniture
          <<108, 111, 111, 107, 105, 110, 103, 32, 102, 111, 114, 32, 102, 117, 114, 110, 105, 116, 117, 114, 101>>,  \* looking for furniture
          <<117, 115, 101, 100, 32, 102, 117, 114, 110, 105, 116, 117, 114, 101>>,  \* used furniture
          <<110, 101, 101, 100, 32, 99, 104, 97, 105, 114>>,  \* need chair
          <<110, 101, 101, 100, 32, 97, 108, 109, 105, 114, 97, 104>>,  \* need almirah
          <<110, 101, 101, 100, 32, 119, 97, 114, 100, 114, 111, 98, 101>>,  \* need wardrobe
          <<110, 101, 101, 100, 32, 116, 118>>,  \* need tv
          <<110, 101, 101, 100, 32, 109, 97, 116, 116, 114, 101, 115, 115>>,  \* need mattress
          <<108, 111, 111, 107, 105, 110, 103, 32, 102, 111, 114, 32, 109, 97, 116, 116, 114, 101, 115, 115>>,  \* looking for mattress
          <<110, 101, 101, 100, 32, 100, 105, 110, 105, 110, 103, 32, 116, 97, 98, 108, 101>>,  \* need dining table
          <<97, 110, 121, 111, 110, 101, 32, 104, 97, 115, 32, 115, 111, 102, 97>>,  \* anyone has sofa
          <<97, 110, 121, 111, 110, 101, 32, 104, 97, 115, 32, 116, 97, 98, 108, 101>>,  \* anyone has table
          <<97, 110, 121, 111, 110, 101, 32, 104, 97, 115, 32, 102, 114, 105, 100, 103, 101>>,  \* anyone has fridge
          <<110, 101, 100, 100, 32, 115, 111, 102, 97>>,  \* nedd sofa
          <<108, 111, 107, 107, 105, 110, 103, 32, 102, 111, 114, 32, 116, 97, 98, 108, 101>>,  \* lokking for table
          <<102, 114, 101, 105, 100, 103, 101, 32, 99, 104, 97, 104, 105, 121, 101>>,  \* freidge chahiye
          <<115, 111, 102, 97, 32, 99, 104, 97, 104, 105, 121, 101>>,  \* sofa chahiye
          <<116, 97, 98, 108, 101, 32, 99, 104, 97, 104, 105, 121, 101>>,  \* table chahiye
          <<98, 101, 100, 32, 99, 104, 97, 104, 105, 121, 101>>,  \* bed chahiye
          <<102, 114, 105, 100, 103, 101, 32, 99, 104, 97, 104, 105, 121, 101>>,  \* fridge chahiye
          <<102, 117, 114, 110, 105, 116, 117, 114, 101, 32, 99, 104, 97, 104, 105, 121, 101>>,  \* furniture chahiye
          <<107, 111, 105, 32, 115, 111, 102, 97>>,  \* koi sofa
          <<107, 111, 105, 32, 116, 97, 98, 108, 101>>,  \* koi table
          <<107, 111, 105, 32, 98, 101, 100>>,  \* koi bed
          <<107, 117, 114, 115, 105, 32, 99, 104, 97, 104, 105, 121, 101>>,  \* kursi chahiye
          <<103, 97, 100, 100, 97, 32, 99, 104, 97, 104, 105, 121, 101>>,  \* gadda chahiye
          <<116, 118, 32, 99, 104, 97, 104, 105, 121, 101>>,  \* tv chahiye
          <<97, 108, 109, 97, 114, 105, 32, 99, 104, 97, 104, 105, 121, 101>>,  \* almari chahiye
          <<112, 117, 114, 97, 110, 97, 32, 102, 117, 114, 110, 105, 116, 117, 114, 101>>,  \* purana furniture
          <<115, 101, 99, 111, 110, 100, 32, 104, 97, 110, 100, 32, 102, 117, 114, 110, 105, 116, 117, 114, 101>>  \* second hand furniture
       >>,
      subcategory_patterns |-> <<
          Str(<<115, 111, 102, 97>>),  \* sofa
          Str(<<116, 97, 98, 108, 101>>),  \* table
          Str(<<98, 101, 100>>),  \* bed
          Str(<<102, 114, 105, 100, 103, 101>>),  \* fridge
          Str(<<114, 101, 102, 114, 105, 103, 101, 114, 97, 116, 111, 114>>),  \* refrigerator
          Str(<<119, 97, 115, 104, 105, 110, 103, 32, 109, 97, 99, 104, 105, 110, 101>>),  \* washing machine
          Str(<<97, 99>>),  \* ac
          Str(<<97, 105, 114, 32, 99, 111, 110, 100, 105, 116, 105, 111, 110, 101, 114>>),  \* air conditioner
          Str(<<99, 104, 97, 105, 114>>),  \* chair
          Str(<<119, 97, 114, 100, 114, 111, 98, 101>>),  \* wardrobe
          Str(<<97, 108, 109, 105, 114, 97, 104>>),  \* almirah
          Str(<<99, 117, 112, 98, 111, 97, 114, 100>>),  \* cupboard
          Str(<<116, 118>>),  \* tv
          Str(<<116, 101, 108, 101, 118, 105, 115, 105, 111, 110>>),  \* television
          Str(<<109, 97, 116, 116, 114, 101, 115, 115>>),  \* mattress
          Str(<<103, 97, 100, 100, 97>>),  \* gadda
          Str(<<100, 105, 110, 105, 110, 103>>),  \* dining
          Str(<<97, 108, 109, 97, 114, 105>>),  \* almari
          Str(<<97, 108, 109, 105, 114, 97>>)  \* almira
       >>],
     [name |-> <<109, 97, 105, 100>>,  \* maid
      offer_keywords |-> <<
          <<109, 97, 105, 100, 32, 97, 118, 97, 105, 108, 97, 98, 108, 101>>,  \* maid available
          <<100, 111, 109, 101, 115, 116, 105, 99, 32, 104, 101, 108, 112, 32, 97, 118, 97, 105, 108, 97, 98, 108, 101>>,  \* domestic help available
          <<104, 101, 108, 112, 101, 114, 32, 97, 118, 97, 105, 108, 97, 98, 108, 101>>,  \* helper available
          <<99, 111, 111, 107, 32, 97, 118, 97, 105, 108, 97, 98, 108, 101>>,  \* cook available
          <<110, 97, 110, 110, 121, 32, 97, 118, 97, 105, 108, 97, 98, 108, 101>>,  \* nanny available
          <<98, 97, 98, 121, 115, 105, 116, 116, 101, 114, 32, 97, 118, 97, 105, 108, 97, 98, 108, 101>>,  \* babysitter available
          <<104, 111, 117, 115, 101, 107, 101, 101, 112, 101, 114, 32, 97, 118, 97, 105, 108, 97, 98, 108, 101>>,  \* housekeeper available
          <<99, 108, 101, 97, 110, 105, 110, 103, 32, 108, 97, 100, 121>>,  \* cleaning lady
          <<98, 97, 105, 32, 97, 118, 97, 105, 108, 97, 98, 108, 101>>,  \* bai available
          <<104, 111, 117, 115, 101, 32, 104, 101, 108, 112, 32, 97, 118, 97, 105, 108, 97, 98, 108, 101>>,  \* house help available
          <<104, 101, 108, 112, 101, 114, 32, 99, 111, 110, 116, 97, 99, 116>>,  \* helper contact
          <<109, 97, 105, 100, 32, 99, 111, 110, 116, 97, 99, 116>>,  \* maid contact
          <<112, 97, 114, 116, 32, 116, 105, 109, 101, 32, 109, 97, 105, 100>>,  \* part time maid
          <<102, 117, 108, 108, 32, 116, 105, 109, 101, 32, 109, 97, 105, 100>>,  \* full time maid
          <<103, 111, 111, 100, 32, 109, 97, 105, 100>>,  \* good maid
          <<109, 97, 105, 100, 101, 32, 97, 118, 97, 105, 108, 97, 98, 108, 101>>,  \* maide available
          <<109, 97, 105, 100, 32, 97, 118, 97, 105, 108, 98, 108, 101>>,  \* maid availble
          <<99, 111, 111, 111, 107, 32, 97, 118, 97, 105, 108, 97, 98, 108, 101>>,  \* coook available
          <<97, 118, 105, 97, 108, 97, 98, 108, 101>>,  \* avialable
          <<109, 97, 105, 100, 32, 109, 105, 108, 32, 106, 97, 121, 101, 103, 105>>,  \* maid mil jayegi
          <<107, 97, 97, 109, 32, 119, 97, 108, 105, 32, 97, 118, 97, 105, 108, 97, 98, 108, 101>>,  \* kaam wali available
          <<98, 97, 105, 32, 97, 118, 97, 105, 108, 97, 98, 108, 101>>,  \* bai available
          <<99, 111, 111, 107, 32, 109, 105, 108, 32, 106, 97, 121, 101, 103, 105>>,  \* cook mil jayegi
          <<107, 97, 97, 109, 119, 97, 108, 105, 32, 97, 118, 97, 105, 108, 97, 98, 108, 101>>,  \* kaamwali available
          <<106, 104, 97, 97, 100, 117, 32, 112, 111, 99, 104, 104, 97>>,  \* jhaadu pochha
          <<107, 97, 97, 109, 32, 119, 97, 108, 105, 32, 109, 105, 108, 101, 103, 105>>,  \* kaam wali milegi
          <<98, 97, 105, 32, 109, 105, 108, 101, 103, 105>>,  \* bai milegi
          <<97, 97, 121, 97, 32, 97, 118, 97, 105, 108, 97, 98, 108, 101>>,  \* aaya available
          <<107, 97, 97, 109, 118, 97, 108, 105>>,  \* kaamvali
          <<107, 97, 109, 119, 97, 108, 105>>,  \* kamwali
          <<98, 104, 97, 105, 32, 97, 118, 97, 105, 108, 97, 98, 108, 101>>  \* bhai available
       >>,
      query_keywords |-> <<
          <<110, 101, 101, 100, 32, 109, 97, 105, 100>>,  \* need maid
          <<108, 111, 111, 107, 105, 110, 103, 32, 102, 111, 114, 32, 109, 97, 105, 100>>,  \* looking for maid
          <<109, 97, 105, 100, 32, 114, 101, 113, 117, 105, 114, 101, 100>>,  \* maid required
          <<119, 97, 110, 116, 32, 109, 97, 105, 100>>,  \* want maid
          <<110, 101, 101, 100, 32, 99, 111, 111, 107>>,  \* need cook
          <<108, 111, 111, 107, 105, 110, 103, 32, 102, 111, 114, 32, 99, 111, 111, 107>>,  \* looking for cook
          <<99, 111, 111, 107, 32, 114, 101, 113, 117, 105, 114, 101, 100>>,  \* cook required
          <<119, 97, 110, 116, 32, 99, 111, 111, 107>>,  \* want cook
          <<110, 101, 101, 100, 32, 110, 97, 110, 110, 121>>,  \* need nanny
          <<108, 111, 111, 107, 105, 110, 103, 32, 102, 111, 114, 32, 110, 97, 110, 110, 121>>,  \* looking for nanny
          <<98, 97, 98, 121, 115, 105, 116, 116, 101, 114, 32, 114, 101, 113, 117, 105, 114, 101, 100>>,  \* babysitter required
          <<110, 101, 101, 100, 32, 100, 111, 109, 101, 115, 116, 105, 99, 32, 104, 101, 108, 112>>,  \* need domestic help
          <<104, 101, 108, 112, 101, 114, 32, 114, 101, 113, 117, 105, 114, 101, 100>>,  \* helper required
          <<110, 101, 101, 100, 32, 98, 97, 105>>,  \* need bai
          <<110, 101, 101, 100, 32, 104, 111, 117, 115, 101, 32, 104, 101, 108, 112>>,  \* need house help
          <<110, 101, 101, 100, 32, 99, 108, 101, 97, 110, 105, 110, 103, 32, 108, 97, 100, 121>>,  \* need cleaning lady
          <<109, 97, 105, 100, 32, 119, 97, 110, 116, 101, 100>>,  \* maid wanted
          <<112, 97, 114, 116, 32, 116, 105, 109, 101, 32, 109, 97, 105, 100, 32, 110, 101, 101, 100, 101, 100>>,  \* part time maid needed
          <<102, 117, 108, 108, 32, 116, 105, 109, 101, 32, 109, 97, 105, 100, 32, 110, 101, 101, 100, 101, 100>>,  \* full time maid needed
          <<108, 111, 111, 107, 105, 110, 103, 32, 102, 111, 114, 32, 97, 32, 109, 97, 105, 100>>,  \* looking for a maid
          <<108, 111, 111, 107, 105, 110, 103, 32, 102, 111, 114, 32, 97, 32, 99, 111, 111, 107>>,  \* looking for a cook
          <<108, 111, 111, 107, 105, 110, 103, 32, 102, 111, 114, 32, 97, 32, 110, 97, 110, 110, 121>>,  \* looking for a nanny
          <<97, 110, 121, 111, 110, 101, 32, 104, 97, 115, 32, 109, 97, 105, 100>>,  \* anyone has maid
          <<97, 110, 121, 32, 109, 97, 105, 100, 32, 97, 118, 97, 105, 108, 97, 98, 108, 101>>,  \* any maid available
          <<109, 97, 105, 100, 32, 99, 111, 110, 116, 97, 99, 116, 32, 112, 108, 101, 97, 115, 101>>,  \* maid contact please
          <<110, 101, 100, 100, 32, 109, 97, 105, 100>>,  \* nedd maid
          <<109, 97, 105, 100, 101, 32, 114, 101, 113, 117, 105, 114, 101, 100>>,  \* maide required
          <<99, 111, 111, 99, 107, 32, 99, 104, 97, 104, 105, 121, 101>>,  \* coock chahiye
          <<109, 97, 105, 100, 32, 114, 101, 113, 117, 114, 105, 101, 100>>,  \* maid requried
          <<108, 111, 107, 107, 105, 110, 103, 32, 102, 111, 114, 32, 109, 97, 105, 100>>,  \* lokking for maid
          <<109, 105, 97, 100, 32, 119, 97, 110, 116, 101, 100>>,  \* miad wanted
          <<109, 97, 100, 101, 32, 114, 101, 113, 117, 105, 114, 101, 100>>,  \* made required
          <<109, 97, 105, 100, 32, 99, 104, 97, 104, 105, 121, 101>>,  \* maid chahiye
          <<107, 97, 97, 109, 32, 119, 97, 108, 105, 32, 99, 104, 97, 104, 105, 121, 101>>,  \* kaam wali chahiye
          <<98, 97, 105, 32, 99, 104, 97, 104, 105, 121, 101>>,  \* bai chahiye
          <<99, 111, 111, 107, 32, 99, 104, 97, 104, 105, 121, 101>>,  \* cook chahiye
          <<110, 97, 110, 110, 121, 32, 99, 104, 97, 104, 105, 121, 101>>,  \* nanny chahiye
          <<107, 97, 97, 109, 119, 97, 108, 105, 32, 99, 104, 97, 104, 105, 121, 101>>,  \* kaamwali chahiye
          <<106, 104, 97, 97, 100, 117, 32, 112, 111, 99, 104, 104, 97, 32, 99, 104, 97, 104, 105, 121, 101>>,  \* jhaadu pochha chahiye
          <<107, 111, 105, 32, 109, 97, 105, 100>>,  \* koi maid
          <<107, 111, 105, 32, 99, 111, 111, 107>>,  \* koi cook
          <<107, 111, 105, 32, 98, 97, 105>>,  \* koi bai
          <<109, 97, 105, 100, 32, 104, 97, 105, 32, 107, 121, 97>>,  \* maid hai kya
          <<107, 111, 105, 32, 109, 97, 105, 100, 32, 104, 97, 105>>,  \* koi maid hai
          <<107, 97, 97, 109, 119, 97, 108, 105, 32, 104, 97, 105, 32, 107, 121, 97>>,  \* kaamwali hai kya
          <<99, 111, 111, 107, 32, 104, 97, 105, 32, 107, 121, 97>>,  \* cook hai kya
          <<97, 97, 121, 97, 32, 99, 104, 97, 104, 105, 121, 101>>,  \* aaya chahiye
          <<99, 104, 104, 97, 105, 121, 101>>,  \* chhaiye
          <<99, 104, 97, 104, 101, 121, 101>>,  \* chaheye
          <<99, 104, 97, 104, 121, 101>>,  \* chahye
          <<107, 97, 97, 109, 118, 97, 108, 105, 32, 99, 104, 97, 104, 105, 121, 101>>,  \* kaamvali chahiye
          <<107, 97, 109, 119, 97, 108, 105, 32, 99, 104, 97, 104, 105, 121, 101>>  \* kamwali chahiye
       >>,
      subcategory_patterns |-> <<
          Str(<<109, 97, 105, 100>>),  \* maid
          Str(<<99, 111, 111, 107>>),  \* cook
          Str(<<110, 97, 110, 110, 121>>),  \* nanny
          Str(<<98, 97, 98, 121, 115, 105, 116, 116, 101, 114>>),  \* babysitter
          Str(<<104, 101, 108, 112, 101, 114>>),  \* helper
          Str(<<98, 97, 105>>),  \* bai
          Str(<<107, 97, 97, 109, 119, 97, 108, 105>>),  \* kaamwali
          Str(<<107, 97, 97, 109, 32, 119, 97, 108, 105>>),  \* kaam wali
          Str(<<104, 111, 117, 115, 101, 107, 101, 101, 112, 101, 114>>),  \* housekeeper
          Str(<<97, 97, 121, 97>>),  \* aaya
          Str(<<107, 97, 109, 119, 97, 108, 105>>)  \* kamwali
       >>],
     [name |-> <<112, 108, 117, 109, 98, 101, 114>>,  \* plumber
      offer_keywords |-> <<
          <<112, 108, 117, 109, 98, 101, 114, 32, 97, 118, 97, 105, 108, 97, 98, 108, 101>>,  \* plumber available
          <<112, 108, 117, 109, 98, 105, 110, 103, 32, 115, 101, 114, 118, 105, 99, 101>>,  \* plumbing service
          <<112, 108, 117, 109, 98, 105, 110, 103, 32, 119, 111, 114, 107>>,  \* plumbing work
          <<112, 108, 117, 109, 98, 101, 114, 32, 99, 111, 110, 116, 97, 99, 116>>,  \* plumber contact
          <<112, 108, 117, 109, 98, 101, 114, 32, 110, 117, 109, 98, 101, 114>>,  \* plumber number
          <<112, 108, 117, 109, 98, 101, 114, 32, 104, 101, 114, 101>>,  \* plumber here
          <<105, 32, 97, 109, 32, 112, 108, 117, 109, 98, 101, 114>>,  \* i am plumber
          <<112, 108, 117, 109, 98, 105, 110, 103, 32, 100, 111, 110, 101>>,  \* plumbing done
          <<112, 108, 117, 109, 98, 101, 114, 32, 107, 97, 32, 107, 97, 97, 109>>,  \* plumber ka kaam
          <<112, 108, 117, 109, 101, 114, 32, 97, 118, 97, 105, 108, 97, 98, 108, 101>>,  \* plumer available
          <<112, 108, 117, 109, 98, 97, 114>>,  \* plumbar
          <<112, 108, 111, 109, 98, 101, 114>>,  \* plomber
          <<112, 108, 97, 109, 98, 101, 114>>,  \* plamber
          <<112, 108, 117, 109, 98, 101, 114, 32, 109, 105, 108, 101, 103, 97>>,  \* plumber milega
          <<112, 108, 117, 109, 98, 101, 114, 32, 97, 118, 97, 105, 108, 97, 98, 108, 101, 32, 104, 97, 105>>,  \* plumber available hai
          <<112, 108, 117, 109, 98, 105, 110, 103, 32, 107, 97, 32, 107, 97, 97, 109>>,  \* plumbing ka kaam
          <<110, 97, 108, 119, 97, 108, 97>>,  \* nalwala
          <<112, 97, 97, 110, 105, 32, 119, 97, 108, 97, 32, 109, 105, 115, 116, 114, 105>>  \* paani wala mistri
       >>,
      query_keywords |-> <<
          <<110, 101, 101, 100, 32, 112, 108, 117, 109, 98, 101, 114>>,  \* need plumber
          <<112, 108, 117, 109, 98, 101, 114, 32, 114, 101, 113, 117, 105, 114, 101, 100>>,  \* plumber required
          <<108, 111, 111, 107, 105, 110, 103, 32, 102, 111, 114, 32, 112, 108, 117, 109, 98, 101, 114>>,  \* looking for plumber
          <<116, 97, 112, 32, 108, 101, 97, 107, 105, 110, 103>>,  \* tap leaking
          <<112, 105, 112, 101, 32, 108, 101, 97, 107, 105, 110, 103>>,  \* pipe leaking
          <<98, 97, 116, 104, 114, 111, 111, 109, 32, 105, 115, 115, 117, 101>>,  \* bathroom issue
          <<116, 111, 105, 108, 101, 116, 32, 105, 115, 115, 117, 101>>,  \* toilet issue
          <<119, 97, 116, 101, 114, 32, 112, 114, 111, 98, 108, 101, 109>>,  \* water problem
          <<100, 114, 97, 105, 110, 97, 103, 101, 32, 112, 114, 111, 98, 108, 101, 109>>,  \* drainage problem
          <<112, 108, 117, 109, 98, 105, 110, 103, 32, 105, 115, 115, 117, 101>>,  \* plumbing issue
          <<116, 97, 112, 32, 105, 115, 115, 117, 101>>,  \* tap issue
          <<112, 105, 112, 101, 32, 105, 115, 115, 117, 101>>,  \* pipe issue
          <<98, 97, 116, 104, 114, 111, 111, 109, 32, 108, 101, 97, 107>>,  \* bathroom leak
          <<116, 111, 105, 108, 101, 116, 32, 108, 101, 97, 107>>,  \* toilet leak
          <<119, 97, 116, 101, 114, 32, 108, 101, 97, 107>>,  \* water leak
          <<100, 114, 97, 105, 110, 97, 103, 101, 32, 105, 115, 115, 117, 101>>,  \* drainage issue
          <<98, 108, 111, 99, 107, 101, 100, 32, 100, 114, 97, 105, 110>>,  \* blocked drain
          <<99, 108, 111, 103, 103, 101, 100>>,  \* clogged
          <<116, 97, 110, 107, 32, 108, 101, 97, 107, 105, 110, 103>>,  \* tank leaking
          <<103, 101, 121, 115, 101, 114, 32, 105, 115, 115, 117, 101>>,  \* geyser issue
          <<103, 101, 121, 115, 101, 114, 32, 112, 114, 111, 98, 108, 101, 109>>,  \* geyser problem
          <<112, 108, 101, 97, 115, 101, 32, 115, 104, 97, 114, 101, 32, 112, 108, 117, 109, 98, 101, 114>>,  \* please share plumber
          <<97, 110, 121, 32, 112, 108, 117, 109, 98, 101, 114>>,  \* any plumber
          <<112, 108, 117, 109, 98, 101, 114, 32, 99, 111, 110, 116, 97, 99, 116, 32, 112, 108, 101, 97, 115, 101>>,  \* plumber contact please
          <<112, 108, 117, 109, 101, 114, 32, 114, 101, 113, 117, 105, 114, 101, 100>>,  \* plumer required
          <<112, 108, 117, 109, 98, 97, 114, 32, 99, 104, 97, 104, 105, 121, 101>>,  \* plumbar chahiye
          <<112, 108, 111, 109, 98, 101, 114, 32, 110, 101, 101, 100, 101, 100>>,  \* plomber needed
          <<108, 101, 107, 105, 110, 103>>,  \* leking
          <<108, 101, 101, 107, 105, 110, 103>>,  \* leeking
          <<108, 101, 97, 107, 110, 103>>,  \* leakng
          <<112, 114, 111, 98, 108, 109>>,  \* problm
          <<105, 115, 117, 101>>,  \* isue
          <<112, 108, 117, 109, 98, 101, 114, 32, 99, 104, 97, 104, 105, 121, 101>>,  \* plumber chahiye
          <<112, 108, 117, 109, 98, 101, 114, 32, 98, 104, 101, 106, 111>>,  \* plumber bhejo
          <<110, 97, 108, 32, 115, 101, 32, 112, 97, 97, 110, 105>>,  \* nal se paani
          <<112, 105, 112, 101, 32, 108, 101, 97, 107>>,  \* pipe leak
          <<116, 111, 105, 108, 101, 116, 32, 107, 104, 97, 114, 97, 98>>,  \* toilet kharab
          <<98, 97, 116, 104, 114, 111, 111, 109, 32, 109, 101, 105, 110, 32, 112, 114, 111, 98, 108, 101, 109>>,  \* bathroom mein problem
          <<112, 97, 97, 110, 105, 32, 107, 97, 32, 105, 115, 115, 117, 101>>,  \* paani ka issue
          <<110, 97, 108, 107, 111, 111, 112>>,  \* nalkoop
          <<98, 111, 114, 105, 110, 103>>,  \* boring
          <<107, 111, 105, 32, 112, 108, 117, 109, 98, 101, 114>>,  \* koi plumber
          <<110, 97, 108, 32, 107, 104, 97, 114, 97, 98>>,  \* nal kharab
          <<112, 97, 97, 110, 105, 32, 116, 97, 112, 97, 107>>,  \* paani tapak
          <<116, 97, 110, 107, 32, 115, 101, 32, 112, 97, 97, 110, 105>>,  \* tank se paani
          <<103, 101, 121, 115, 101, 114, 32, 107, 104, 97, 114, 97, 98>>,  \* geyser kharab
          <<112, 108, 117, 109, 98, 101, 114, 32, 99, 104, 97, 105, 121, 101>>,  \* plumber chaiye
          <<112, 108, 117, 109, 98, 97, 114, 32, 99, 104, 97, 105, 121, 101>>  \* plumbar chaiye
       >>,
      subcategory_patterns |-> <<
          Str(<<116, 97, 112>>),  \* tap
          Str(<<112, 105, 112, 101>>),  \* pipe
          Str(<<116, 111, 105, 108, 101, 116>>),  \* toilet
          Str(<<98, 97, 116, 104, 114, 111, 111, 109>>),  \* bathroom
          Str(<<100, 114, 97, 105, 110, 97, 103, 101>>),  \* drainage
          Str(<<108, 101, 97, 107>>),  \* leak
          Str(<<103, 101, 121, 115, 101, 114>>),  \* geyser
          Str(<<116, 97, 110, 107>>),  \* tank
          Str(<<110, 97, 108>>),  \* nal
          Str(<<100, 114, 97, 105, 110>>),  \* drain
          Str(<<99, 108, 111, 103>>)  \* clog
       >>],
     [name |-> <<101, 108, 101, 99, 116, 114, 105, 99, 105, 97, 110>>,  \* electrician
      offer_keywords |-> <<
          <<101, 108, 101, 99, 116, 114, 105, 99, 105, 97, 110, 32, 97, 118, 97, 105, 108, 97, 98, 108, 101>>,  \* electrician available
          <<101, 108, 101, 99, 116, 114, 105, 99, 97, 108, 32, 119, 111, 114, 107>>,  \* electrical work
          <<101, 108, 101, 99, 116, 114, 105, 99, 97, 108, 32, 115, 101, 114, 118, 105, 99, 101>>,  \* electrical service
          <<101, 108, 101, 99, 116, 114, 105, 99, 105, 97, 110, 32, 99, 111, 110, 116, 97, 99, 116>>,  \* electrician contact
          <<101, 108, 101, 99, 116, 114, 105, 99, 105, 97, 110, 32, 110, 117, 109, 98, 101, 114>>,  \* electrician number
          <<119, 105, 114, 105, 110, 103, 32, 119, 111, 114, 107>>,  \* wiring work
          <<105, 32, 97, 109, 32, 101, 108, 101, 99, 116, 114, 105, 99, 105, 97, 110>>,  \* i am electrician
          <<101, 108, 101, 99, 116, 114, 105, 99, 97, 108, 32, 114, 101, 112, 97, 105, 114, 115>>,  \* electrical repairs
          <<101, 108, 101, 99, 116, 114, 105, 116, 105, 97, 110>>,  \* electritian
          <<101, 108, 101, 99, 116, 114, 105, 99, 97, 110>>,  \* electrican
          <<101, 108, 101, 99, 116, 114, 105, 115, 105, 111, 110>>,  \* electrision
          <<101, 108, 101, 99, 116, 105, 99, 105, 97, 110>>,  \* electician
          <<101, 108, 101, 99, 116, 114, 105, 99, 105, 97, 110, 32, 109, 105, 108, 101, 103, 97>>,  \* electrician milega
          <<98, 105, 106, 108, 105, 32, 107, 97, 32, 107, 97, 97, 109>>,  \* bijli ka kaam
          <<119, 105, 114, 105, 110, 103, 32, 97, 118, 97, 105, 108, 97, 98, 108, 101>>,  \* wiring available
          <<98, 105, 106, 108, 105, 32, 119, 97, 108, 97>>,  \* bijli wala
          <<98, 105, 106, 108, 105, 32, 109, 105, 115, 116, 114, 105>>  \* bijli mistri
       >>,
      query_keywords |-> <<
          <<110, 101, 101, 100, 32, 101, 108, 101, 99, 116, 114, 105, 99, 105, 97, 110>>,  \* need electrician
          <<101, 108, 101, 99, 116, 114, 105, 99, 105, 97, 110, 32, 114, 101, 113, 117, 105, 114, 101, 100>>,  \* electrician required
          <<108, 111, 111, 107, 105, 110, 103, 32, 102, 111, 114, 32, 101, 108, 101, 99, 116, 114, 105, 99, 105, 97, 110>>,  \* looking for electrician
          <<102, 97, 110, 32, 110, 111, 116, 32, 119, 111, 114, 107, 105, 110, 103>>,  \* fan not working
          <<108, 105, 103, 104, 116, 32, 110, 111, 116, 32, 119, 111, 114, 107, 105, 110, 103>>,  \* light not working
          <<115, 119, 105, 116, 99, 104, 32, 112, 114, 111, 98, 108, 101, 109>>,  \* switch problem
          <<119, 105, 114, 105, 110, 103, 32, 105, 115, 115, 117, 101>>,  \* wiring issue
          <<101, 108, 101, 99, 116, 114, 105, 99, 97, 108, 32, 112, 114, 111, 98, 108, 101, 109>>,  \* electrical problem
          <<112, 111, 119, 101, 114, 32, 105, 115, 115, 117, 101>>,  \* power issue
          <<109, 99, 98, 32, 116, 114, 105, 112, 112, 105, 110, 103>>,  \* mcb tripping
          <<105, 110, 118, 101, 114, 116, 101, 114, 32, 112, 114, 111, 98, 108, 101, 109>>,  \* inverter problem
          <<117, 112, 115, 32, 112, 114, 111, 98, 108, 101, 109>>,  \* ups problem
          <<115, 111, 99, 107, 101, 116, 32, 105, 115, 115, 117, 101>>,  \* socket issue
          <<112, 108, 117, 103, 32, 105, 115, 115, 117, 101>>,  \* plug issue
          <<115, 104, 111, 114, 116, 32, 99, 105, 114, 99, 117, 105, 116>>,  \* short circuit
          <<102, 117, 115, 101, 32, 112, 114, 111, 98, 108, 101, 109>>,  \* fuse problem
          <<97, 99, 32, 110, 111, 116, 32, 119, 111, 114, 107, 105, 110, 103, 32, 101, 108, 101, 99, 116, 114, 105, 99, 105, 97, 110>>,  \* ac not working electrician
          <<112, 108, 101, 97, 115, 101, 32, 115, 104, 97, 114, 101, 32, 101, 108, 101, 99, 116, 114, 105, 99, 105, 97, 110>>,  \* please share electrician
          <<97, 110, 121, 32, 101, 108, 101, 99, 116, 114, 105, 99, 105, 97, 110>>,  \* any electrician
          <<101, 108, 101, 99, 116, 114, 105, 99, 105, 97, 110, 32, 99, 111, 110, 116, 97, 99, 116>>,  \* electrician contact
          <<101, 108, 101, 99, 116, 114, 105, 116, 105, 97, 110, 32, 99, 104, 97, 104, 105, 121, 101>>,  \* electritian chahiye
          <<101, 108, 101, 99, 116, 105, 99, 105, 97, 110, 32, 110, 101, 101, 100, 101, 100>>,  \* electician needed
          <<101, 108, 101, 99, 116, 114, 105, 99, 97, 110, 32, 114, 101, 113, 117, 105, 114, 101, 100>>,  \* electrican required
          <<102, 97, 110, 32, 110, 111, 116, 32, 119, 111, 114, 107, 110, 103>>,  \* fan not workng
          <<108, 105, 116, 101, 32, 110, 111, 116, 32, 119, 111, 114, 107, 105, 110, 103>>,  \* lite not working
          <<112, 114, 111, 98, 101, 109>>,  \* probem
          <<105, 115, 115, 115, 117, 101>>,  \* isssue
          <<101, 108, 101, 99, 116, 114, 105, 99, 105, 97, 110, 32, 99, 104, 97, 104, 105, 121, 101>>,  \* electrician chahiye
          <<98, 105, 106, 108, 105, 32, 107, 97, 32, 107, 97, 97, 109>>,  \* bijli ka kaam
          <<102, 97, 110, 32, 107, 104, 97, 114, 97, 98>>,  \* fan kharab
          <<108, 105, 103, 104, 116, 32, 107, 104, 97, 114, 97, 98>>,  \* light kharab
          <<115, 119, 105, 116, 99, 104, 32, 107, 104, 97, 114, 97, 98>>,  \* switch kharab
          <<119, 105, 114, 105, 110, 103, 32, 112, 114, 111, 98, 108, 101, 109>>,  \* wiring problem
          <<98, 105, 106, 108, 105, 32, 110, 97, 104, 105>>,  \* bijli nahi
          <<99, 117, 114, 114, 101, 110, 116, 32, 110, 97, 104, 105>>,  \* current nahi
          <<107, 111, 105, 32, 101, 108, 101, 99, 116, 114, 105, 99, 105, 97, 110>>,  \* koi electrician
          <<105, 110, 118, 101, 114, 116, 101, 114, 32, 107, 104, 97, 114, 97, 98>>,  \* inverter kharab
          <<109, 99, 98, 32, 116, 114, 105, 112>>,  \* mcb trip
          <<115, 111, 99, 107, 101, 116, 32, 107, 104, 97, 114, 97, 98>>,  \* socket kharab
          <<112, 108, 117, 103, 32, 107, 104, 97, 114, 97, 98>>,  \* plug kharab
          <<101, 108, 101, 99, 116, 114, 105, 99, 105, 97, 110, 32, 99, 104, 97, 105, 121, 101>>,  \* electrician chaiye
          <<98, 105, 106, 108, 101, 101>>,  \* bijlee
          <<98, 105, 103, 108, 105>>  \* bigli
       >>,
      subcategory_patterns |-> <<
          Str(<<102, 97, 110>>),  \* fan
          Str(<<108, 105, 103, 104, 116>>),  \* light
          Str(<<115, 119, 105, 116, 99, 104>>),  \* switch
          Str(<<119, 105, 114, 105, 110, 103>>),  \* wiring
          Str(<<109, 99, 98>>),  \* mcb
          Str(<<105, 110, 118, 101, 114, 116, 101, 114>>),  \* inverter
          Str(<<115, 111, 99, 107, 101, 116>>),  \* socket
          Str(<<112, 108, 117, 103>>),  \* plug
          Str(<<102, 117, 115, 101>>),  \* fuse
          Str(<<97, 99>>),  \* ac
          Str(<<117, 112, 115>>)  \* ups
       >>],
     [name |-> <<99, 97, 114, 112, 101, 110, 116, 101, 114>>,  \* carpenter
      offer_keywords |-> <<
          <<99, 97, 114, 112, 101, 110, 116, 101, 114, 32, 97, 118, 97, 105, 108, 97, 98, 108, 101>>,  \* carpenter available
          <<99, 97, 114, 112, 101, 110, 116, 114, 121, 32, 119, 111, 114, 107>>,  \* carpentry work
          <<102, 117, 114, 110, 105, 116, 117, 114, 101, 32, 114, 101, 112, 97, 105, 114>>,  \* furniture repair
          <<119, 111, 111, 100, 32, 119, 111, 114, 107>>,  \* wood work
          <<99, 97, 114, 112, 101, 110, 116, 101, 114, 32, 99, 111, 110, 116, 97, 99, 116>>,  \* carpenter contact
          <<119, 111, 111, 100, 119, 111, 114, 107, 32, 100, 111, 110, 101>>,  \* woodwork done
          <<105, 32, 97, 109, 32, 99, 97, 114, 112, 101, 110, 116, 101, 114>>,  \* i am carpenter
          <<99, 97, 114, 112, 101, 110, 116, 114, 121, 32, 115, 101, 114, 118, 105, 99, 101>>,  \* carpentry service
          <<99, 97, 114, 112, 97, 110, 116, 101, 114>>,  \* carpanter
          <<99, 97, 114, 112, 101, 110, 116, 97, 114>>,  \* carpentar
          <<99, 97, 114, 112, 110, 116, 101, 114>>,  \* carpnter
          <<99, 97, 114, 112, 101, 116, 101, 114>>,  \* carpeter
          <<99, 97, 114, 112, 101, 110, 116, 101, 114, 32, 109, 105, 108, 101, 103, 97>>,  \* carpenter milega
          <<109, 105, 115, 116, 114, 105, 32, 97, 118, 97, 105, 108, 97, 98, 108, 101>>,  \* mistri available
          <<108, 97, 107, 100, 105, 32, 107, 97, 32, 107, 97, 97, 109>>,  \* lakdi ka kaam
          <<98, 97, 100, 104, 97, 105, 32, 97, 118, 97, 105, 108, 97, 98, 108, 101>>,  \* badhai available
          <<98, 97, 100, 104, 97, 105, 32, 109, 105, 108, 101, 103, 97>>  \* badhai milega
       >>,
      query_keywords |-> <<
          <<110, 101, 101, 100, 32, 99, 97, 114, 112, 101, 110, 116, 101, 114>>,  \* need carpenter
          <<99, 97, 114, 112, 101, 110, 116, 101, 114, 32, 114, 101, 113, 117, 105, 114, 101, 100>>,  \* carpenter required
          <<108, 111, 111, 107, 105, 110, 103, 32, 102, 111, 114, 32, 99, 97, 114, 112, 101, 110, 116, 101, 114>>,  \* looking for carpenter
          <<102, 117, 114, 110, 105, 116, 117, 114, 101, 32, 114, 101, 112, 97, 105, 114>>,  \* furniture repair
          <<100, 111, 111, 114, 32, 114, 101, 112, 97, 105, 114>>,  \* door repair
          <<119, 111, 111, 100, 32, 119, 111, 114, 107, 32, 110, 101, 101, 100, 101, 100>>,  \* wood work needed
          <<99, 97, 98, 105, 110, 101, 116, 32, 114, 101, 112, 97, 105, 114>>,  \* cabinet repair
          <<119, 97, 114, 100, 114, 111, 98, 101, 32, 114, 101, 112, 97, 105, 114>>,  \* wardrobe repair
          <<102, 105, 120, 105, 110, 103, 32, 102, 117, 114, 110, 105, 116, 117, 114, 101>>,  \* fixing furniture
          <<100, 111, 111, 114, 32, 112, 114, 111, 98, 108, 101, 109>>,  \* door problem
          <<100, 114, 97, 119, 101, 114, 32, 98, 114, 111, 107, 101, 110>>,  \* drawer broken
          <<99, 117, 112, 98, 111, 97, 114, 100, 32, 114, 101, 112, 97, 105, 114>>,  \* cupboard repair
          <<97, 110, 121, 32, 99, 97, 114, 112, 101, 110, 116, 101, 114>>,  \* any carpenter
          <<99, 97, 114, 112, 101, 110, 116, 101, 114, 32, 99, 111, 110, 116, 97, 99, 116, 32, 112, 108, 101, 97, 115, 101>>,  \* carpenter contact please
          <<99, 97, 114, 112, 97, 110, 116, 101, 114, 32, 110, 101, 101, 100, 101, 100>>,  \* carpanter needed
          <<99, 97, 114, 112, 110, 116, 101, 114, 32, 99, 104, 97, 104, 105, 121, 101>>,  \* carpnter chahiye
          <<102, 117, 114, 110, 105, 116, 117, 114, 32, 114, 101, 112, 97, 105, 114>>,  \* furnitur repair
          <<99, 97, 114, 112, 101, 110, 116, 101, 114, 32, 99, 104, 97, 104, 105, 121, 101>>,  \* carpenter chahiye
          <<109, 105, 115, 116, 114, 105, 32, 99, 104, 97, 104, 105, 121, 101>>,  \* mistri chahiye
          <<108, 97, 107, 100, 105, 32, 107, 97, 32, 107, 97, 97, 109>>,  \* lakdi ka kaam
          <<102, 117, 114, 110, 105, 116, 117, 114, 101, 32, 114, 101, 112, 97, 105, 114>>,  \* furniture repair
          <<100, 111, 111, 114, 32, 107, 104, 97, 114, 97, 98>>,  \* door kharab
          <<107, 111, 105, 32, 99, 97, 114, 112, 101, 110, 116, 101, 114>>,  \* koi carpenter
          <<107, 111, 105, 32, 109, 105, 115, 116, 114, 105>>,  \* koi mistri
          <<98, 97, 100, 104, 97, 105, 32, 99, 104, 97, 104, 105, 121, 101>>,  \* badhai chahiye
          <<100, 97, 114, 119, 97, 122, 97, 32, 107, 104, 97, 114, 97, 98>>,  \* darwaza kharab
          <<97, 108, 109, 97, 114, 105, 32, 114, 101, 112, 97, 105, 114>>,  \* almari repair
          <<109, 105, 115, 116, 114, 101, 101>>,  \* mistree
          <<109, 105, 115, 116, 97, 114, 105>>  \* mistari
       >>,
      subcategory_patterns |-> <<
          Str(<<100, 111, 111, 114>>),  \* door
          Str(<<99, 97, 98, 105, 110, 101, 116>>),  \* cabinet
          Str(<<119, 97, 114, 100, 114, 111, 98, 101>>),  \* wardrobe
          Str(<<102, 117, 114, 110, 105, 116, 117, 114, 101>>),  \* furniture
          Str(<<119, 111, 111, 100>>),  \* wood
          Str(<<100, 114, 97, 119, 101, 114>>),  \* drawer
          Str(<<99, 117, 112, 98, 111, 97, 114, 100>>),  \* cupboard
          Str(<<97, 108, 109, 97, 114, 105>>),  \* almari
          Str(<<100, 97, 114, 119, 97, 122, 97>>)  \* darwaza
       >>],
     [name |-> <<100, 114, 105, 118, 101, 114>>,  \* driver
      offer_keywords |-> <<
          <<100, 114, 105, 118, 101, 114, 32, 97, 118, 97, 105, 108, 97, 98, 108, 101>>,  \* driver available
          <<99, 97, 110, 32, 100, 114, 105, 118, 101>>,  \* can drive
          <<100, 114, 105, 118, 105, 110, 103, 32, 115, 101, 114, 118, 105, 99, 101>>,  \* driving service
          <<100, 114, 105, 118, 101, 114, 32, 102, 111, 114, 32, 104, 105, 114, 101>>,  \* driver for hire
          <<100, 114, 105, 118, 101, 114, 32, 99, 111, 110, 116, 97, 99, 116>>,  \* driver contact
          <<105, 32, 99, 97, 110, 32, 100, 114, 105, 118, 101>>,  \* i can drive
          <<101, 120, 112, 101, 114, 105, 101, 110, 99, 101, 100, 32, 100, 114, 105, 118, 101, 114>>,  \* experienced driver
          <<112, 97, 114, 116, 32, 116, 105, 109, 101, 32, 100, 114, 105, 118, 101, 114, 32, 97, 118, 97, 105, 108, 97, 98, 108, 101>>,  \* part time driver available
          <<100, 105, 118, 101, 114, 32, 97, 118, 97, 105, 108, 97, 98, 108, 101>>,  \* diver available
          <<100, 114, 105, 118, 97, 114>>,  \* drivar
          <<100, 114, 105, 118, 114>>,  \* drivr
          <<100, 114, 105, 118, 101, 114, 32, 109, 105, 108, 101, 103, 97>>,  \* driver milega
          <<100, 114, 105, 118, 101, 114, 32, 97, 118, 97, 105, 108, 97, 98, 108, 101, 32, 104, 97, 105>>,  \* driver available hai
          <<103, 97, 97, 100, 105, 32, 99, 104, 97, 108, 97, 32, 115, 97, 107, 116, 97>>,  \* gaadi chala sakta
          <<100, 114, 105, 118, 101, 114, 32, 104, 117, 110>>,  \* driver hun
          <<103, 97, 97, 100, 105, 32, 99, 104, 97, 108, 97, 116, 97, 32, 104, 117, 110>>  \* gaadi chalata hun
       >>,
      query_keywords |-> <<
          <<110, 101, 101, 100, 32, 100, 114, 105, 118, 101, 114>>,  \* need driver
          <<100, 114, 105, 118, 101, 114, 32, 114, 101, 113, 117, 105, 114, 101, 100>>,  \* driver required
          <<108, 111, 111, 107, 105, 110, 103, 32, 102, 111, 114, 32, 100, 114, 105, 118, 101, 114>>,  \* looking for driver
          <<100, 114, 105, 118, 101, 114, 32, 119, 97, 110, 116, 101, 100>>,  \* driver wanted
          <<112, 97, 114, 116, 32, 116, 105, 109, 101, 32, 100, 114, 105, 118, 101, 114>>,  \* part time driver
          <<102, 117, 108, 108, 32, 116, 105, 109, 101, 32, 100, 114, 105, 118, 101, 114>>,  \* full time driver
          <<97, 110, 121, 32, 100, 114, 105, 118, 101, 114>>,  \* any driver
          <<100, 114, 105, 118, 101, 114, 32, 99, 111, 110, 116, 97, 99, 116, 32, 112, 108, 101, 97, 115, 101>>,  \* driver contact please
          <<112, 101, 114, 115, 111, 110, 97, 108, 32, 100, 114, 105, 118, 101, 114, 32, 110, 101, 101, 100, 101, 100>>,  \* personal driver needed
          <<100, 105, 118, 101, 114, 32, 110, 101, 101, 100, 101, 100>>,  \* diver needed
          <<100, 114, 105, 118, 97, 114, 32, 99, 104, 97, 104, 105, 121, 101>>,  \* drivar chahiye
          <<100, 114, 105, 118, 114, 32, 114, 101, 113, 117, 105, 114, 101, 100>>,  \* drivr required
          <<100, 114, 105, 118, 101, 114, 32, 99, 104, 97, 104, 105, 121, 101>>,  \* driver chahiye
          <<103, 97, 97, 100, 105, 32, 99, 104, 97, 108, 97, 110, 101, 32, 119, 97, 108, 97>>,  \* gaadi chalane wala
          <<107, 111, 105, 32, 100, 114, 105, 118, 101, 114>>,  \* koi driver
          <<100, 114, 105, 118, 101, 114, 32, 98, 104, 101, 106, 111>>,  \* driver bhejo
          <<100, 114, 105, 118, 101, 114, 32, 107, 97, 32, 110, 117, 109, 98, 101, 114>>,  \* driver ka number
          <<100, 114, 105, 118, 101, 114, 32, 109, 105, 108, 101, 32, 107, 121, 97>>,  \* driver mile kya
          <<100, 114, 105, 118, 97, 114, 32, 99, 104, 97, 105, 121, 101>>  \* drivar chaiye
       >>,
      subcategory_patterns |-> <<
          Str(<<100, 114, 105, 118, 101, 114>>),  \* driver
          Str(<<102, 117, 108, 108, 32, 116, 105, 109, 101>>),  \* full time
          Str(<<112, 97, 114, 116, 32, 116, 105, 109, 101>>),  \* part time
          Str(<<112, 101, 114, 115, 111, 110, 97, 108>>)  \* personal
       >>],
     [name |-> <<97, 99, 95, 114, 101, 112, 97, 105, 114>>,  \* ac_repair
      offer_keywords |-> <<
          <<97, 99, 32, 114, 101, 112, 97, 105, 114>>,  \* ac repair
          <<97, 99, 32, 115, 101, 114, 118, 105, 99, 101>>,  \* ac service
          <<97, 99, 32, 105, 110, 115, 116, 97, 108, 108, 97, 116, 105, 111, 110>>,  \* ac installation
          <<102, 114, 105, 100, 103, 101, 32, 114, 101, 112, 97, 105, 114>>,  \* fridge repair
          <<119, 97, 115, 104, 105, 110, 103, 32, 109, 97, 99, 104, 105, 110, 101, 32, 114, 101, 112, 97, 105, 114>>,  \* washing machine repair
          <<97, 112, 112, 108, 105, 97, 110, 99, 101, 32, 114, 101, 112, 97, 105, 114>>,  \* appliance repair
          <<97, 99, 32, 116, 101, 99, 104, 110, 105, 99, 105, 97, 110>>,  \* ac technician
          <<97, 99, 32, 109, 101, 99, 104, 97, 110, 105, 99>>,  \* ac mechanic
          <<97, 99, 32, 103, 97, 115, 32, 102, 105, 108, 108, 105, 110, 103, 32, 97, 118, 97, 105, 108, 97, 98, 108, 101>>,  \* ac gas filling available
          <<105, 32, 114, 101, 112, 97, 105, 114, 32, 97, 99>>,  \* i repair ac
          <<102, 114, 105, 100, 103, 101, 32, 116, 101, 99, 104, 110, 105, 99, 105, 97, 110>>,  \* fridge technician
          <<97, 99, 32, 114, 101, 112, 105, 97, 114>>,  \* ac repiar
          <<97, 99, 32, 115, 101, 114, 118, 105, 115, 101>>,  \* ac servise
          <<97, 99, 32, 115, 101, 114, 118, 105, 99>>,  \* ac servic
          <<102, 114, 105, 100, 100, 103, 101, 32, 114, 101, 112, 97, 105, 114>>,  \* friddge repair
          <<97, 99, 32, 114, 101, 112, 97, 105, 114, 32, 97, 118, 97, 105, 108, 97, 98, 108, 101>>,  \* ac repair available
          <<97, 99, 32, 107, 97, 32, 107, 97, 97, 109>>,  \* ac ka kaam
          <<102, 114, 105, 100, 103, 101, 32, 114, 101, 112, 97, 105, 114, 32, 97, 118, 97, 105, 108, 97, 98, 108, 101>>,  \* fridge repair available
          <<97, 99, 32, 119, 97, 108, 97>>,  \* ac wala
          <<102, 114, 105, 100, 103, 101, 32, 119, 97, 108, 97>>  \* fridge wala
       >>,
      query_keywords |-> <<
          <<97, 99, 32, 110, 111, 116, 32, 119, 111, 114, 107, 105, 110, 103>>,  \* ac not working
          <<97, 99, 32, 114, 101, 112, 97, 105, 114, 32, 110, 101, 101, 100, 101, 100>>,  \* ac repair needed
          <<110, 101, 101, 100, 32, 97, 99, 32, 115, 101, 114, 118, 105, 99, 101>>,  \* need ac service
          <<102, 114, 105, 100, 103, 101, 32, 110, 111, 116, 32, 119, 111, 114, 107, 105, 110, 103>>,  \* fridge not working
          <<102, 114, 105, 100, 103, 101, 32, 114, 101, 112, 97, 105, 114>>,  \* fridge repair
          <<119, 97, 115, 104, 105, 110, 103, 32, 109, 97, 99, 104, 105, 110, 101, 32, 114, 101, 112, 97, 105, 114>>,  \* washing machine repair
          <<97, 99, 32, 110, 111, 116, 32, 99, 111, 111, 108, 105, 110, 103>>,  \* ac not cooling
          <<97, 99, 32, 103, 97, 115, 32, 102, 105, 108, 108, 105, 110, 103>>,  \* ac gas filling
          <<97, 99, 32, 105, 110, 115, 116, 97, 108, 108, 97, 116, 105, 111, 110>>,  \* ac installation
          <<97, 99, 32, 108, 101, 97, 107, 105, 110, 103>>,  \* ac leaking
          <<97, 99, 32, 110, 111, 105, 115, 101>>,  \* ac noise
          <<102, 114, 105, 100, 103, 101, 32, 110, 111, 116, 32, 99, 111, 111, 108, 105, 110, 103>>,  \* fridge not cooling
          <<119, 97, 115, 104, 105, 110, 103, 32, 109, 97, 99, 104, 105, 110, 101, 32, 110, 111, 116, 32, 119, 111, 114, 107, 105, 110, 103>>,  \* washing machine not working
          <<109, 105, 99, 114, 111, 119, 97, 118, 101, 32, 114, 101, 112, 97, 105, 114>>,  \* microwave repair
          <<103, 101, 121, 115, 101, 114, 32, 114, 101, 112, 97, 105, 114>>,  \* geyser repair
          <<97, 110, 121, 32, 97, 99, 32, 116, 101, 99, 104, 110, 105, 99, 105, 97, 110>>,  \* any ac technician
          <<97, 99, 32, 109, 101, 99, 104, 97, 110, 105, 99, 32, 110, 101, 101, 100, 101, 100>>,  \* ac mechanic needed
          <<97, 99, 32, 110, 111, 116, 32, 119, 111, 114, 107, 110, 103>>,  \* ac not workng
          <<97, 99, 32, 110, 111, 116, 32, 99, 111, 111, 108, 105, 103>>,  \* ac not coolig
          <<97, 99, 32, 114, 101, 112, 105, 97, 114, 32, 110, 101, 101, 100, 101, 100>>,  \* ac repiar needed
          <<102, 114, 105, 100, 103, 32, 114, 101, 112, 97, 105, 114>>,  \* fridg repair
          <<119, 97, 115, 104, 110, 103, 32, 109, 97, 99, 104, 105, 110, 101>>,  \* washng machine
          <<103, 101, 97, 115, 101, 114, 32, 114, 101, 112, 97, 105, 114>>,  \* geaser repair
          <<97, 99, 32, 107, 104, 97, 114, 97, 98>>,  \* ac kharab
          <<97, 99, 32, 114, 101, 112, 97, 105, 114, 32, 99, 104, 97, 104, 105, 121, 101>>,  \* ac repair chahiye
          <<97, 99, 32, 116, 104, 97, 110, 100, 97, 32, 110, 97, 104, 105>>,  \* ac thanda nahi
          <<102, 114, 105, 100, 103, 101, 32, 107, 104, 97, 114, 97, 98>>,  \* fridge kharab
          <<119, 97, 115, 104, 105, 110, 103, 32, 109, 97, 99, 104, 105, 110, 101, 32, 107, 104, 97, 114, 97, 98>>,  \* washing machine kharab
          <<107, 111, 105, 32, 97, 99, 32, 119, 97, 108, 97>>,  \* koi ac wala
          <<97, 99, 32, 115, 101, 32, 112, 97, 97, 110, 105>>,  \* ac se paani
          <<102, 114, 105, 100, 103, 101, 32, 116, 104, 97, 110, 100, 97, 32, 110, 97, 104, 105>>,  \* fridge thanda nahi
          <<103, 101, 121, 115, 101, 114, 32, 107, 104, 97, 114, 97, 98>>,  \* geyser kharab
          <<97, 99, 32, 99, 104, 97, 105, 121, 101>>,  \* ac chaiye
          <<97, 99, 32, 99, 104, 97, 104, 121, 101>>  \* ac chahye
       >>,
      subcategory_patterns |-> <<
          Str(<<97, 99>>),  \* ac
          Str(<<97, 105, 114, 32, 99, 111, 110, 100, 105, 116, 105, 111, 110, 101, 114>>),  \* air conditioner
          Str(<<102, 114, 105, 100, 103, 101>>),  \* fridge
          Str(<<114, 101, 102, 114, 105, 103, 101, 114, 97, 116, 111, 114>>),  \* refrigerator
          Str(<<119, 97, 115, 104, 105, 110, 103, 32, 109, 97, 99, 104, 105, 110, 101>>),  \* washing machine
          Str(<<109, 105, 99, 114, 111, 119, 97, 118, 101>>),  \* microwave
          Str(<<103, 101, 121, 115, 101, 114>>),  \* geyser
          Str(<<99, 111, 111, 108, 101, 114>>)  \* cooler
       >>],
     [name |-> <<116, 117, 116, 111, 114>>,  \* tutor
      offer_keywords |-> <<
          <<116, 117, 116, 111, 114, 32, 97, 118, 97, 105, 108, 97, 98, 108, 101>>,  \* tutor available
          <<104, 111, 109, 101, 32, 116, 117, 105, 116, 105, 111, 110>>,  \* home tuition
          <<116, 101, 97, 99, 104, 105, 110, 103, 32, 97, 118, 97, 105, 108, 97, 98, 108, 101>>,  \* teaching available
          <<99, 97, 110, 32, 116, 101, 97, 99, 104>>,  \* can teach
          <<116, 117, 105, 116, 105, 111, 110, 32, 99, 108, 97, 115, 115, 101, 115>>,  \* tuition classes
          <<99, 111, 97, 99, 104, 105, 110, 103, 32, 97, 118, 97, 105, 108, 97, 98, 108, 101>>,  \* coaching available
          <<105, 32, 116, 101, 97, 99, 104>>,  \* i teach
          <<112, 114, 105, 118, 97, 116, 101, 32, 116, 117, 116, 111, 114>>,  \* private tutor
          <<116, 117, 116, 111, 114, 105, 110, 103, 32, 97, 118, 97, 105, 108, 97, 98, 108, 101>>,  \* tutoring available
          <<111, 110, 108, 105, 110, 101, 32, 116, 117, 105, 116, 105, 111, 110>>,  \* online tuition
          <<104, 111, 109, 101, 32, 116, 101, 97, 99, 104, 105, 110, 103>>,  \* home teaching
          <<116, 117, 116, 101, 114, 32, 97, 118, 97, 105, 108, 97, 98, 108, 101>>,  \* tuter available
          <<116, 117, 116, 105, 111, 110, 32, 99, 108, 97, 115, 115, 101, 115>>,  \* tution classes
          <<116, 117, 116, 111, 114, 32, 97, 118, 97, 105, 108, 98, 108, 101>>,  \* tutor availble
          <<116, 117, 105, 116, 105, 111, 110, 32, 97, 118, 97, 105, 108, 97, 98, 108, 101>>,  \* tuition available
          <<112, 97, 100, 104, 97, 32, 115, 97, 107, 116, 97>>,  \* padha sakta
          <<116, 101, 97, 99, 104, 101, 114, 32, 97, 118, 97, 105, 108, 97, 98, 108, 101>>,  \* teacher available
          <<112, 97, 100, 104, 97, 116, 97, 32, 104, 117, 110>>,  \* padhata hun
          <<112, 97, 100, 104, 97, 116, 105, 32, 104, 117, 110>>  \* padhati hun
       >>,
      query_keywords |-> <<
          <<110, 101, 101, 100, 32, 116, 117, 116, 111, 114>>,  \* need tutor
          <<116, 117, 116, 111, 114, 32, 114, 101, 113, 117, 105, 114, 101, 100>>,  \* tutor required
          <<108, 111, 111, 107, 105, 110, 103, 32, 102, 111, 114, 32, 116, 117, 116, 111, 114>>,  \* looking for tutor
          <<104, 111, 109, 101, 32, 116, 117, 105, 116, 105, 111, 110>>,  \* home tuition
          <<116, 117, 105, 116, 105, 111, 110, 32, 102, 111, 114, 32, 99, 108, 97, 115, 115>>,  \* tuition for class
          <<110, 101, 101, 100, 32, 116, 101, 97, 99, 104, 101, 114>>,  \* need teacher
          <<109, 97, 116, 104, 115, 32, 116, 117, 116, 111, 114>>,  \* maths tutor
          <<115, 99, 105, 101, 110, 99, 101, 32, 116, 117, 116, 111, 114>>,  \* science tutor
          <<101, 110, 103, 108, 105, 115, 104, 32, 116, 117, 116, 111, 114>>,  \* english tutor
          <<112, 104, 121, 115, 105, 99, 115, 32, 116, 117, 116, 111, 114>>,  \* physics tutor
          <<99, 104, 101, 109, 105, 115, 116, 114, 121, 32, 116, 117, 116, 111, 114>>,  \* chemistry tutor
          <<104, 105, 110, 100, 105, 32, 116, 117, 116, 111, 114>>,  \* hindi tutor
          <<116, 117, 116, 111, 114, 32, 102, 111, 114, 32, 99, 108, 97, 115, 115>>,  \* tutor for class
          <<97, 110, 121, 32, 116, 117, 116, 111, 114>>,  \* any tutor
          <<116, 117, 116, 111, 114, 32, 99, 111, 110, 116, 97, 99, 116>>,  \* tutor contact
          <<99, 111, 97, 99, 104, 105, 110, 103, 32, 110, 101, 101, 100, 101, 100>>,  \* coaching needed
          <<112, 114, 105, 118, 97, 116, 101, 32, 116, 117, 116, 111, 114, 32, 110, 101, 101, 100, 101, 100>>,  \* private tutor needed
          <<116, 117, 116, 101, 114, 32, 114, 101, 113, 117, 105, 114, 101, 100>>,  \* tuter required
          <<116, 117, 116, 105, 111, 110, 32, 99, 104, 97, 104, 105, 121, 101>>,  \* tution chahiye
          <<116, 117, 116, 101, 114, 32, 110, 101, 101, 100, 101, 100>>,  \* tuter needed
          <<109, 97, 116, 104, 115, 32, 116, 117, 116, 101, 114>>,  \* maths tuter
          <<115, 99, 105, 110, 99, 101, 32, 116, 117, 116, 111, 114>>,  \* scince tutor
          <<99, 104, 101, 109, 105, 115, 116, 121, 32, 116, 117, 116, 111, 114>>,  \* chemisty tutor
          <<108, 111, 111, 107, 105, 110, 103, 32, 102, 111, 114, 32, 116, 117, 116, 101, 114>>,  \* looking for tuter
          <<116, 117, 116, 101, 114, 32, 102, 111, 114, 32, 99, 108, 97, 115, 115>>,  \* tuter for class
          <<110, 101, 101, 100, 32, 116, 117, 116, 101, 114>>,  \* need tuter
          <<116, 117, 116, 111, 114, 32, 99, 104, 97, 104, 105, 121, 101>>,  \* tutor chahiye
          <<116, 101, 97, 99, 104, 101, 114, 32, 99, 104, 97, 104, 105, 121, 101>>,  \* teacher chahiye
          <<116, 117, 105, 116, 105, 111, 110, 32, 99, 104, 97, 104, 105, 121, 101>>,  \* tuition chahiye
          <<112, 97, 100, 104, 97, 110, 101, 32, 119, 97, 108, 97>>,  \* padhane wala
          <<107, 111, 105, 32, 116, 117, 116, 111, 114>>,  \* koi tutor
          <<107, 111, 105, 32, 116, 101, 97, 99, 104, 101, 114>>,  \* koi teacher
          <<99, 111, 97, 99, 104, 105, 110, 103, 32, 99, 104, 97, 104, 105, 121, 101>>,  \* coaching chahiye
          <<115, 105, 114, 32, 99, 104, 97, 104, 105, 121, 101>>,  \* sir chahiye
          <<109, 97, 100, 97, 109, 32, 99, 104, 97, 104, 105, 121, 101>>,  \* madam chahiye
          <<116, 117, 115, 104, 97, 110, 32, 99, 104, 97, 104, 105, 121, 101>>,  \* tushan chahiye
          <<116, 117, 116, 105, 111, 110, 32, 99, 104, 97, 105, 121, 101>>  \* tution chaiye
       >>,
      subcategory_patterns |-> <<
          Cat(<<Lit(99), Lit(108), Lit(97), Lit(115), Lit(115), Star(Class("s")), Plus(Class("d"))>>),  \* class\s*\d+
          Str(<<109, 97, 116, 104, 115>>),  \* maths
          Str(<<109, 97, 116, 104>>),  \* math
          Str(<<115, 99, 105, 101, 110, 99, 101>>),  \* science
          Str(<<101, 110, 103, 108, 105, 115, 104>>),  \* english
          Str(<<104, 105, 110, 100, 105>>),  \* hindi
          Str(<<112, 104, 121, 115, 105, 99, 115>>),  \* physics
          Str(<<99, 104, 101, 109, 105, 115, 116, 114, 121>>),  \* chemistry
          Str(<<99, 98, 115, 101>>),  \* cbse
          Str(<<105, 99, 115, 101>>),  \* icse
          Str(<<115, 115, 99>>),  \* ssc
          Str(<<104, 115, 99>>)  \* hsc
       >>],
     [name |-> <<112, 97, 99, 107, 101, 114, 115, 95, 109, 111, 118, 101, 114, 115>>,  \* packers_movers
      offer_keywords |-> <<
          <<112, 97, 99, 107, 101, 114, 115, 32, 97, 118, 97, 105, 108, 97, 98, 108, 101>>,  \* packers available
          <<109, 111, 118, 101, 114, 115, 32, 97, 118, 97, 105, 108, 97, 98, 108, 101>>,  \* movers available
          <<115, 104, 105, 102, 116, 105, 110, 103, 32, 115, 101, 114, 118, 105, 99, 101>>,  \* shifting service
          <<114, 101, 108, 111, 99, 97, 116, 105, 111, 110, 32, 115, 101, 114, 118, 105, 99, 101>>,  \* relocation service
          <<116, 114, 97, 110, 115, 112, 111, 114, 116, 32, 97, 118, 97, 105, 108, 97, 98, 108, 101>>,  \* transport available
          <<112, 97, 99, 107, 105, 110, 103, 32, 115, 101, 114, 118, 105, 99, 101>>,  \* packing service
          <<109, 111, 118, 105, 110, 103, 32, 115, 101, 114, 118, 105, 99, 101>>,  \* moving service
          <<119, 101, 32, 100, 111, 32, 115, 104, 105, 102, 116, 105, 110, 103>>,  \* we do shifting
          <<112, 97, 99, 107, 101, 114, 115, 32, 97, 118, 97, 108, 97, 98, 108, 101>>,  \* packers avalable
          <<109, 111, 118, 101, 114, 115, 32, 97, 118, 97, 105, 108, 98, 108, 101>>,  \* movers availble
          <<115, 104, 105, 102, 116, 105, 110, 103, 32, 115, 101, 114, 118, 105, 115, 101>>,  \* shifting servise
          <<112, 97, 99, 107, 101, 114, 115, 32, 109, 111, 118, 101, 114, 115, 32, 97, 118, 97, 105, 108, 97, 98, 108, 101>>,  \* packers movers available
          <<115, 104, 105, 102, 116, 105, 110, 103, 32, 107, 97, 32, 107, 97, 97, 109>>,  \* shifting ka kaam
          <<115, 97, 109, 97, 110, 32, 108, 101, 32, 106, 97, 121, 101, 110, 103, 101>>,  \* saman le jayenge
          <<115, 104, 105, 102, 116, 105, 110, 103, 32, 107, 97, 114, 119, 97, 116, 101, 32, 104, 97, 105, 110>>  \* shifting karwate hain
       >>,
      query_keywords |-> <<
          <<110, 101, 101, 100, 32, 112, 97, 99, 107, 101, 114, 115>>,  \* need packers
          <<112, 97, 99, 107, 101, 114, 115, 32, 114, 101, 113, 117, 105, 114, 101, 100>>,  \* packers required
          <<108, 111, 111, 107, 105, 110, 103, 32, 102, 111, 114, 32, 109, 111, 118, 101, 114, 115>>,  \* looking for movers
          <<115, 104, 105, 102, 116, 105, 110, 103, 32, 104, 101, 108, 112>>,  \* shifting help
          <<104, 111, 117, 115, 101, 32, 115, 104, 105, 102, 116, 105, 110, 103>>,  \* house shifting
          <<114, 101, 108, 111, 99, 97, 116, 105, 111, 110, 32, 104, 101, 108, 112>>,  \* relocation help
          <<110, 101, 101, 100, 32, 116, 114, 97, 110, 115, 112, 111, 114, 116>>,  \* need transport
          <<103, 111, 111, 100, 115, 32, 116, 114, 97, 110, 115, 112, 111, 114, 116>>,  \* goods transport
          <<109, 111, 118, 105, 110, 103, 32, 104, 101, 108, 112>>,  \* moving help
          <<97, 110, 121, 32, 112, 97, 99, 107, 101, 114, 115>>,  \* any packers
          <<112, 97, 99, 107, 101, 114, 115, 32, 99, 111, 110, 116, 97, 99, 116>>,  \* packers contact
          <<109, 111, 118, 101, 114, 115, 32, 99, 111, 110, 116, 97, 99, 116>>,  \* movers contact
          <<108, 111, 99, 97, 108, 32, 115, 104, 105, 102, 116, 105, 110, 103>>,  \* local shifting
          <<111, 117, 116, 115, 116, 97, 116, 105, 111, 110, 32, 115, 104, 105, 102, 116, 105, 110, 103>>,  \* outstation shifting
          <<112, 97, 99, 107, 101, 114, 115, 32, 114, 101, 113, 117, 114, 105, 101, 100>>,  \* packers requried
          <<115, 104, 105, 112, 116, 105, 110, 103, 32, 104, 101, 108, 112>>,  \* shipting help
          <<114, 101, 108, 111, 99, 97, 116, 111, 110, 32, 104, 101, 108, 112>>,  \* relocaton help
          <<112, 97, 99, 107, 101, 114, 115, 32, 99, 104, 97, 104, 105, 121, 101>>,  \* packers chahiye
          <<109, 111, 118, 101, 114, 115, 32, 99, 104, 97, 104, 105, 121, 101>>,  \* movers chahiye
          <<115, 104, 105, 102, 116, 105, 110, 103, 32, 99, 104, 97, 104, 105, 121, 101>>,  \* shifting chahiye
          <<115, 97, 109, 97, 110, 32, 115, 104, 105, 102, 116, 32, 107, 97, 114, 110, 97>>,  \* saman shift karna
          <<103, 104, 97, 114, 32, 98, 97, 100, 97, 108, 110, 97>>,  \* ghar badalna
          <<107, 111, 105, 32, 112, 97, 99, 107, 101, 114, 115>>,  \* koi packers
          <<115, 104, 105, 102, 116, 105, 110, 103, 32, 107, 97, 114, 110, 97, 32, 104, 97, 105>>,  \* shifting karna hai
          <<103, 104, 97, 114, 32, 115, 104, 105, 102, 116>>,  \* ghar shift
          <<115, 97, 109, 97, 110, 32, 108, 101, 32, 106, 97, 110, 97>>,  \* saman le jana
          <<115, 104, 105, 112, 116, 105, 110, 103, 32, 99, 104, 97, 104, 105, 121, 101>>,  \* shipting chahiye
          <<112, 97, 99, 107, 97, 114, 32, 99, 104, 97, 104, 105, 121, 101>>  \* packar chahiye
       >>,
      subcategory_patterns |-> <<
          Str(<<108, 111, 99, 97, 108>>),  \* local
          Str(<<111, 117, 116, 115, 116, 97, 116, 105, 111, 110>>),  \* outstation
          Str(<<105, 110, 116, 101, 114, 115, 116, 97, 116, 101>>),  \* interstate
          Str(<<99, 105, 116, 121>>),  \* city
          Str(<<115, 104, 105, 102, 116, 105, 110, 103>>)  \* shifting
       >>],
     [name |-> <<118, 101, 104, 105, 99, 108, 101>>,  \* vehicle
      offer_keywords |-> <<
          <<115, 101, 108, 108, 105, 110, 103, 32, 99, 97, 114>>,  \* selling car
          <<99, 97, 114, 32, 102, 111, 114, 32, 115, 97, 108, 101>>,  \* car for sale
          <<98, 105, 107, 101, 32, 102, 111, 114, 32, 115, 97, 108, 101>>,  \* bike for sale
          <<115, 101, 108, 108, 105, 110, 103, 32, 98, 105, 107, 101>>,  \* selling bike
          <<115, 99, 111, 111, 116, 101, 114, 32, 102, 111, 114, 32, 115, 97, 108, 101>>,  \* scooter for sale
          <<118, 101, 104, 105, 99, 108, 101, 32, 102, 111, 114, 32, 115, 97, 108, 101>>,  \* vehicle for sale
          <<117, 115, 101, 100, 32, 99, 97, 114>>,  \* used car
          <<117, 115, 101, 100, 32, 98, 105, 107, 101>>,  \* used bike
          <<115, 101, 108, 108, 105, 110, 103, 32, 97, 99, 116, 105, 118, 97>>,  \* selling activa
          <<115, 101, 108, 108, 105, 110, 103, 32, 115, 99, 111, 111, 116, 121>>,  \* selling scooty
          <<97, 99, 116, 105, 118, 97, 32, 102, 111, 114, 32, 115, 97, 108, 101>>,  \* activa for sale
          <<115, 99, 111, 111, 116, 121, 32, 102, 111, 114, 32, 115, 97, 108, 101>>,  \* scooty for sale
          <<119, 97, 110, 116, 32, 115, 101, 108, 108>>,  \* want sell
          <<119, 97, 110, 116, 32, 116, 111, 32, 115, 101, 108, 108, 32, 109, 121>>,  \* want to sell my
          <<116, 119, 111, 32, 119, 104, 101, 101, 108, 101, 114>>,  \* two wheeler
          <<115, 101, 108, 108, 105, 110, 103, 32, 116, 119, 111, 32, 119, 104, 101, 101, 108, 101, 114>>,  \* selling two wheeler
          <<115, 101, 108, 108, 105, 110, 103, 32, 109, 121, 32, 99, 97, 114>>,  \* selling my car
          <<115, 101, 108, 108, 105, 110, 103, 32, 109, 121, 32, 98, 105, 107, 101>>,  \* selling my bike
          <<99, 97, 114, 32, 97, 118, 97, 105, 108, 97, 98, 108, 101>>,  \* car available
          <<98, 105, 107, 101, 32, 97, 118, 97, 105, 108, 97, 98, 108, 101>>,  \* bike available
          <<115, 101, 99, 111, 110, 100, 32, 104, 97, 110, 100, 32, 99, 97, 114>>,  \* second hand car
          <<115, 101, 99, 111, 110, 100, 32, 104, 97, 110, 100, 32, 98, 105, 107, 101>>,  \* second hand bike
          <<115, 101, 108, 105, 110, 103, 32, 99, 97, 114>>,  \* seling car
          <<115, 101, 108, 108, 105, 110, 32, 98, 105, 107, 101>>,  \* sellin bike
          <<99, 97, 114, 32, 102, 111, 114, 32, 115, 101, 108>>,  \* car for sel
          <<98, 105, 107, 32, 102, 111, 114, 32, 115, 97, 108, 101>>,  \* bik for sale
          <<97, 99, 116, 118, 97, 32, 102, 111, 114, 32, 115, 97, 108, 101>>,  \* actva for sale
          <<115, 99, 111, 111, 116, 105>>,  \* scooti
          <<115, 99, 111, 116, 121>>,  \* scoty
          <<99, 97, 114, 32, 98, 101, 99, 104, 110, 97>>,  \* car bechna
          <<98, 105, 107, 101, 32, 98, 101, 99, 104, 110, 97>>,  \* bike bechna
          <<103, 97, 97, 100, 105, 32, 98, 101, 99, 104, 110, 97>>,  \* gaadi bechna
          <<115, 99, 111, 111, 116, 121, 32, 98, 101, 99, 104, 110, 97>>,  \* scooty bechna
          <<97, 99, 116, 105, 118, 97, 32, 98, 101, 99, 104, 110, 97>>,  \* activa bechna
          <<98, 101, 99, 104, 110, 97, 32, 104, 97, 105, 32, 99, 97, 114>>,  \* bechna hai car
          <<98, 101, 99, 104, 110, 97, 32, 104, 97, 105, 32, 98, 105, 107, 101>>,  \* bechna hai bike
          <<103, 97, 97, 100, 105, 32, 98, 101, 99, 104, 32, 114, 97, 104, 97>>,  \* gaadi bech raha
          <<98, 105, 107, 101, 32, 98, 101, 99, 104, 32, 114, 97, 104, 105>>  \* bike bech rahi
       >>,
      query_keywords |-> <<
          <<108, 111, 111, 107, 105, 110, 103, 32, 102, 111, 114, 32, 99, 97, 114>>,  \* looking for car
          <<110, 101, 101, 100, 32, 99, 97, 114>>,  \* need car
          <<119, 97, 110, 116, 32, 116, 111, 32, 98, 117, 121, 32, 99, 97, 114>>,  \* want to buy car
          <<108, 111, 111, 107, 105, 110, 103, 32, 102, 111, 114, 32, 98, 105, 107, 101>>,  \* looking for bike
          <<110, 101, 101, 100, 32, 98, 105, 107, 101>>,  \* need bike
          <<119, 97, 110, 116, 32, 116, 111, 32, 98, 117, 121, 32, 98, 105, 107, 101>>,  \* want to buy bike
          <<117, 115, 101, 100, 32, 99, 97, 114>>,  \* used car
          <<115, 101, 99, 111, 110, 100, 32, 104, 97, 110, 100, 32, 99, 97, 114>>,  \* second hand car
          <<117, 115, 101, 100, 32, 98, 105, 107, 101>>,  \* used bike
          <<108, 111, 111, 107, 105, 110, 103, 32, 102, 111, 114, 32, 97, 99, 116, 105, 118, 97>>,  \* looking for activa
          <<108, 111, 111, 107, 105, 110, 103, 32, 102, 111, 114, 32, 115, 99, 111, 111, 116, 121>>,  \* looking for scooty
          <<110, 101, 101, 100, 32, 97, 99, 116, 105, 118, 97>>,  \* need activa
          <<110, 101, 101, 100, 32, 115, 99, 111, 111, 116, 121>>,  \* need scooty
          <<119, 97, 110, 116, 32, 97, 99, 116, 105, 118, 97>>,  \* want activa
          <<119, 97, 110, 116, 32, 115, 99, 111, 111, 116, 121>>,  \* want scooty
          <<108, 111, 111, 107, 105, 110, 103, 32, 102, 111, 114, 32, 116, 119, 111, 32, 119, 104, 101, 101, 108, 101, 114>>,  \* looking for two wheeler
          <<97, 110, 121, 32, 99, 97, 114, 32, 97, 118, 97, 105, 108, 97, 98, 108, 101>>,  \* any car available
          <<97, 110, 121, 32, 98, 105, 107, 101, 32, 97, 118, 97, 105, 108, 97, 98, 108, 101>>,  \* any bike available
          <<99, 97, 114, 32, 99, 111, 110, 116, 97, 99, 116>>,  \* car contact
          <<115, 101, 99, 111, 110, 100, 32, 104, 97, 110, 100, 32, 118, 101, 104, 105, 99, 108, 101>>,  \* second hand vehicle
          <<111, 108, 100, 32, 99, 97, 114>>,  \* old car
          <<111, 108, 100, 32, 98, 105, 107, 101>>,  \* old bike
          <<108, 111, 107, 107, 105, 110, 103, 32, 102, 111, 114, 32, 99, 97, 114>>,  \* lokking for car
          <<110, 101, 100, 100, 32, 98, 105, 107, 101>>,  \* nedd bike
          <<115, 101, 99, 110, 100, 32, 104, 97, 110, 100>>,  \* secnd hand
          <<111, 108, 100, 32, 98, 105, 107>>,  \* old bik
          <<99, 97, 114, 32, 99, 104, 97, 104, 105, 121, 101>>,  \* car chahiye
          <<98, 105, 107, 101, 32, 99, 104, 97, 104, 105, 121, 101>>,  \* bike chahiye
          <<103, 97, 97, 100, 105, 32, 99, 104, 97, 104, 105, 121, 101>>,  \* gaadi chahiye
          <<107, 111, 105, 32, 99, 97, 114>>,  \* koi car
          <<107, 111, 105, 32, 98, 105, 107, 101>>,  \* koi bike
          <<112, 117, 114, 97, 110, 105, 32, 99, 97, 114>>,  \* purani car
          <<112, 117, 114, 97, 110, 105, 32, 98, 105, 107, 101>>,  \* purani bike
          <<97, 99, 116, 105, 118, 97, 32, 99, 104, 97, 104, 105, 121, 101>>,  \* activa chahiye
          <<115, 99, 111, 111, 116, 121, 32, 99, 104, 97, 104, 105, 121, 101>>,  \* scooty chahiye
          <<103, 97, 97, 100, 105, 32, 108, 101, 110, 105, 32, 104, 97, 105>>,  \* gaadi leni hai
          <<98, 105, 107, 101, 32, 108, 101, 110, 105, 32, 104, 97, 105>>,  \* bike leni hai
          <<115, 101, 99, 111, 110, 100, 32, 104, 97, 110, 100, 32, 103, 97, 97, 100, 105>>,  \* second hand gaadi
          <<99, 97, 114, 32, 99, 104, 97, 105, 121, 101>>,  \* car chaiye
          <<103, 97, 97, 100, 104, 105, 32, 99, 104, 97, 104, 105, 121, 101>>  \* gaadhi chahiye
       >>,
      subcategory_patterns |-> <<
          Str(<<99, 97, 114>>),  \* car
          Str(<<98, 105, 107, 101>>),  \* bike
          Str(<<115, 99, 111, 111, 116, 101, 114>>),  \* scooter
          Str(<<115, 99, 111, 111, 116, 121>>),  \* scooty
          Str(<<97, 99, 116, 105, 118, 97>>),  \* activa
          Str(<<116, 119, 111, 32, 119, 104, 101, 101, 108, 101, 114>>),  \* two wheeler
          Str(<<98, 117, 108, 108, 101, 116>>),  \* bullet
          Str(<<115, 112, 108, 101, 110, 100, 111, 114>>),  \* splendor
          Str(<<112, 117, 108, 115, 97, 114>>),  \* pulsar
          Str(<<104, 111, 110, 100, 97>>),  \* honda
          Str(<<115, 117, 122, 117, 107, 105>>),  \* suzuki
          Str(<<109, 97, 114, 117, 116, 105>>),  \* maruti
          Str(<<104, 121, 117, 110, 100, 97, 105>>),  \* hyundai
          Str(<<116, 97, 116, 97>>),  \* tata
          Str(<<97, 108, 116, 111>>),  \* alto
          Str(<<115, 119, 105, 102, 116>>),  \* swift
          Str(<<105, 49, 48>>),  \* i10
          Str(<<105, 50, 48>>)  \* i20
       >>],
     [name |-> <<112, 101, 115, 116, 95, 99, 111, 110, 116, 114, 111, 108>>,  \* pest_control
      offer_keywords |-> <<
          <<112, 101, 115, 116, 32, 99, 111, 110, 116, 114, 111, 108, 32, 97, 118, 97, 105, 108, 97, 98, 108, 101>>,  \* pest control available
          <<112, 101, 115, 116, 32, 99, 111, 110, 116, 114, 111, 108, 32, 115, 101, 114, 118, 105, 99, 101>>,  \* pest control service
          <<116, 101, 114, 109, 105, 116, 101, 32, 116, 114, 101, 97, 116, 109, 101, 110, 116>>,  \* termite treatment
          <<99, 111, 99, 107, 114, 111, 97, 99, 104, 32, 99, 111, 110, 116, 114, 111, 108>>,  \* cockroach control
          <<112, 101, 115, 116, 32, 99, 111, 110, 116, 114, 111, 108, 32, 109, 105, 108, 101, 103, 97>>,  \* pest control milega
          <<112, 101, 115, 116, 32, 99, 111, 110, 116, 114, 111, 108, 32, 107, 97, 32, 107, 97, 97, 109>>  \* pest control ka kaam
       >>,
      query_keywords |-> <<
          <<110, 101, 101, 100, 32, 112, 101, 115, 116, 32, 99, 111, 110, 116, 114, 111, 108>>,  \* need pest control
          <<112, 101, 115, 116, 32, 99, 111, 110, 116, 114, 111, 108, 32, 114, 101, 113, 117, 105, 114, 101, 100>>,  \* pest control required
          <<108, 111, 111, 107, 105, 110, 103, 32, 102, 111, 114, 32, 112, 101, 115, 116, 32, 99, 111, 110, 116, 114, 111, 108>>,  \* looking for pest control
          <<99, 111, 99, 107, 114, 111, 97, 99, 104, 32, 112, 114, 111, 98, 108, 101, 109>>,  \* cockroach problem
          <<116, 101, 114, 109, 105, 116, 101, 32, 112, 114, 111, 98, 108, 101, 109>>,  \* termite problem
          <<97, 110, 116, 32, 112, 114, 111, 98, 108, 101, 109>>,  \* ant problem
          <<98, 101, 100, 32, 98, 117, 103, 115>>,  \* bed bugs
          <<109, 111, 115, 113, 117, 105, 116, 111, 32, 112, 114, 111, 98, 108, 101, 109>>,  \* mosquito problem
          <<114, 97, 116, 32, 112, 114, 111, 98, 108, 101, 109>>,  \* rat problem
          <<112, 101, 115, 116, 32, 105, 115, 115, 117, 101>>,  \* pest issue
          <<112, 101, 115, 116, 32, 99, 111, 110, 116, 111, 108>>,  \* pest contol
          <<99, 111, 99, 107, 114, 111, 99, 104>>,  \* cockroch
          <<116, 101, 114, 109, 105, 116, 32, 112, 114, 111, 98, 108, 101, 109>>,  \* termit problem
          <<112, 101, 115, 116, 32, 99, 111, 110, 116, 114, 111, 108, 32, 99, 104, 97, 104, 105, 121, 101>>,  \* pest control chahiye
          <<99, 111, 99, 107, 114, 111, 97, 99, 104, 32, 112, 114, 111, 98, 108, 101, 109, 32, 104, 97, 105>>,  \* cockroach problem hai
          <<107, 105, 100, 101, 32, 109, 97, 107, 111, 100, 101>>,  \* kide makode
          <<99, 104, 117, 104, 101, 32, 107, 105, 32, 112, 114, 111, 98, 108, 101, 109>>,  \* chuhe ki problem
          <<109, 97, 99, 104, 104, 97, 114, 32, 112, 114, 111, 98, 108, 101, 109>>  \* machhar problem
       >>,
      subcategory_patterns |-> <<
          Str(<<99, 111, 99, 107, 114, 111, 97, 99, 104>>),  \* cockroach
          Str(<<116, 101, 114, 109, 105, 116, 101>>),  \* termite
          Str(<<97, 110, 116>>),  \* ant
          Str(<<98, 101, 100, 32, 98, 117, 103>>),  \* bed bug
          Str(<<109, 111, 115, 113, 117, 105, 116, 111>>),  \* mosquito
          Str(<<114, 97, 116>>)  \* rat
       >>],
     [name |-> <<112, 97, 105, 110, 116, 101, 114>>,  \* painter
      offer_keywords |-> <<
          <<112, 97, 105, 110, 116, 101, 114, 32, 97, 118, 97, 105, 108, 97, 98, 108, 101>>,  \* painter available
          <<112, 97, 105, 110, 116, 105, 110, 103, 32, 115, 101, 114, 118, 105, 99, 101>>,  \* painting service
          <<112, 97, 105, 110, 116, 105, 110, 103, 32, 119, 111, 114, 107>>,  \* painting work
          <<105, 32, 97, 109, 32, 112, 97, 105, 110, 116, 101, 114>>,  \* i am painter
          <<104, 111, 109, 101, 32, 112, 97, 105, 110, 116, 105, 110, 103>>,  \* home painting
          <<119, 97, 108, 108, 32, 112, 97, 105, 110, 116, 105, 110, 103>>,  \* wall painting
          <<112, 97, 105, 110, 116, 97, 114, 32, 97, 118, 97, 105, 108, 97, 98, 108, 101>>,  \* paintar available
          <<112, 97, 105, 116, 101, 114>>,  \* paiter
          <<112, 97, 105, 110, 116, 101, 114, 32, 109, 105, 108, 101, 103, 97>>,  \* painter milega
          <<112, 97, 105, 110, 116, 105, 110, 103, 32, 107, 97, 32, 107, 97, 97, 109>>,  \* painting ka kaam
          <<114, 97, 110, 103, 32, 119, 97, 108, 97>>  \* rang wala
       >>,
      query_keywords |-> <<
          <<110, 101, 101, 100, 32, 112, 97, 105, 110, 116, 101, 114>>,  \* need painter
          <<112, 97, 105, 110, 116, 101, 114, 32, 114, 101, 113, 117, 105, 114, 101, 100>>,  \* painter required
          <<108, 111, 111, 107, 105, 110, 103, 32, 102, 111, 114, 32, 112, 97, 105, 110, 116, 101, 114>>,  \* looking for painter
          <<112, 97, 105, 110, 116, 105, 110, 103, 32, 110, 101, 101, 100, 101, 100>>,  \* painting needed
          <<119, 97, 108, 108, 32, 112, 97, 105, 110, 116>>,  \* wall paint
          <<104, 111, 117, 115, 101, 32, 112, 97, 105, 110, 116, 105, 110, 103>>,  \* house painting
          <<97, 110, 121, 32, 112, 97, 105, 110, 116, 101, 114>>,  \* any painter
          <<112, 97, 105, 110, 116, 101, 114, 32, 99, 111, 110, 116, 97, 99, 116>>,  \* painter contact
          <<112, 97, 105, 110, 116, 97, 114, 32, 99, 104, 97, 104, 105, 121, 101>>,  \* paintar chahiye
          <<112, 97, 105, 116, 101, 114, 32, 110, 101, 101, 100, 101, 100>>,  \* paiter needed
          <<112, 97, 105, 110, 116, 110, 103, 32, 110, 101, 101, 100, 101, 100>>,  \* paintng needed
          <<112, 97, 105, 110, 116, 101, 114, 32, 99, 104, 97, 104, 105, 121, 101>>,  \* painter chahiye
          <<112, 97, 105, 110, 116, 105, 110, 103, 32, 107, 97, 32, 107, 97, 97, 109>>,  \* painting ka kaam
          <<114, 97, 110, 103, 32, 107, 97, 114, 110, 97, 32, 104, 97, 105>>,  \* rang karna hai
          <<107, 111, 105, 32, 112, 97, 105, 110, 116, 101, 114>>,  \* koi painter
          <<114, 97, 110, 103, 32, 119, 97, 108, 97, 32, 99, 104, 97, 104, 105, 121, 101>>,  \* rang wala chahiye
          <<103, 104, 97, 114, 32, 112, 97, 105, 110, 116, 32, 107, 97, 114, 110, 97>>  \* ghar paint karna
       >>,
      subcategory_patterns |-> <<
          Str(<<112, 97, 105, 110, 116>>),  \* paint
          Str(<<119, 97, 108, 108>>),  \* wall
          Str(<<114, 111, 111, 109>>),  \* room
          Str(<<104, 111, 117, 115, 101>>),  \* house
          Str(<<105, 110, 116, 101, 114, 105, 111, 114>>),  \* interior
          Str(<<101, 120, 116, 101, 114, 105, 111, 114>>)  \* exterior
       >>],
     [name |-> <<115, 101, 99, 117, 114, 105, 116, 121, 95, 103, 117, 97, 114, 100>>,  \* security_guard
      offer_keywords |-> <<
          <<115, 101, 99, 117, 114, 105, 116, 121, 32, 103, 117, 97, 114, 100, 32, 97, 118, 97, 105, 108, 97, 98, 108, 101>>,  \* security guard available
          <<119, 97, 116, 99, 104, 109, 97, 110, 32, 97, 118, 97, 105, 108, 97, 98, 108, 101>>,  \* watchman available
          <<103, 117, 97, 114, 100, 32, 97, 118, 97, 105, 108, 97, 98, 108, 101>>,  \* guard available
          <<115, 101, 99, 117, 114, 105, 116, 121, 32, 115, 101, 114, 118, 105, 99, 101>>,  \* security service
          <<103, 117, 97, 114, 100, 32, 109, 105, 108, 101, 103, 97>>,  \* guard milega
          <<99, 104, 111, 119, 107, 105, 100, 97, 114, 32, 109, 105, 108, 101, 103, 97>>,  \* chowkidar milega
          <<119, 97, 116, 99, 104, 109, 97, 110, 32, 109, 105, 108, 101, 103, 97>>  \* watchman milega
       >>,
      query_keywords |-> <<
          <<110, 101, 101, 100, 32, 115, 101, 99, 117, 114, 105, 116, 121, 32, 103, 117, 97, 114, 100>>,  \* need security guard
          <<103, 117, 97, 114, 100, 32, 114, 101, 113, 117, 105, 114, 101, 100>>,  \* guard required
          <<108, 111, 111, 107, 105, 110, 103, 32, 102, 111, 114, 32, 119, 97, 116, 99, 104, 109, 97, 110>>,  \* looking for watchman
          <<115, 101, 99, 117, 114, 105, 116, 121, 32, 110, 101, 101, 100, 101, 100>>,  \* security needed
          <<110, 105, 103, 104, 116, 32, 103, 117, 97, 114, 100>>,  \* night guard
          <<100, 97, 121, 32, 103, 117, 97, 114, 100>>,  \* day guard
          <<103, 97, 117, 114, 100, 32, 114, 101, 113, 117, 105, 114, 101, 100>>,  \* gaurd required
          <<115, 101, 99, 114, 105, 116, 121, 32, 103, 117, 97, 114, 100>>,  \* secrity guard
          <<119, 97, 116, 99, 104, 109, 110, 32, 110, 101, 101, 100, 101, 100>>,  \* watchmn needed
          <<103, 117, 97, 114, 100, 32, 99, 104, 97, 104, 105, 121, 101>>,  \* guard chahiye
          <<119, 97, 116, 99, 104, 109, 97, 110, 32, 99, 104, 97, 104, 105, 121, 101>>,  \* watchman chahiye
          <<99, 104, 111, 119, 107, 105, 100, 97, 114, 32, 99, 104, 97, 104, 105, 121, 101>>,  \* chowkidar chahiye
          <<115, 101, 99, 117, 114, 105, 116, 121, 32, 99, 104, 97, 104, 105, 121, 101>>,  \* security chahiye
          <<114, 97, 97, 116, 32, 107, 97, 32, 103, 117, 97, 114, 100>>,  \* raat ka guard
          <<100, 105, 110, 32, 107, 97, 32, 103, 117, 97, 114, 100>>  \* din ka guard
       >>,
      subcategory_patterns |-> <<
          Str(<<103, 117, 97, 114, 100>>),  \* guard
          Str(<<119, 97, 116, 99, 104, 109, 97, 110>>),  \* watchman
          Str(<<99, 104, 111, 119, 107, 105, 100, 97, 114>>),  \* chowkidar
          Str(<<115, 101, 99, 117, 114, 105, 116, 121>>),  \* security
          Str(<<110, 105, 103, 104, 116>>),  \* night
          Str(<<100, 97, 121>>)  \* day
       >>]
    >>

QUERY_INDICATORS ==
    <<
       <<110, 101, 101, 100>>,  \* need
       <<114, 101, 113, 117, 105, 114, 101>>,  \* require
       <<114, 101, 113, 117, 105, 114, 101, 100>>,  \* required
       <<108, 111, 111, 107, 105, 110, 103, 32, 102, 111, 114>>,  \* looking for
       <<119, 97, 110, 116>>,  \* want
       <<119, 97, 110, 116, 101, 100>>,  \* wanted
       <<97, 110, 121, 111, 110, 101>>,  \* anyone
       <<97, 110, 121, 32, 111, 110, 101>>,  \* any one
       <<97, 110, 121, 98, 111, 100, 121>>,  \* anybody
       <<97, 110, 121, 32, 98, 111, 100, 121>>,  \* any body
       <<119, 104, 111, 32, 104, 97, 115>>,  \* who has
       <<119, 104, 111, 32, 104, 97, 118, 101>>,  \* who have
       <<112, 108, 101, 97, 115, 101, 32, 115, 104, 97, 114, 101>>,  \* please share
       <<112, 108, 115, 32, 115, 104, 97, 114, 101>>,  \* pls share
       <<99, 97, 110, 32, 115, 111, 109, 101, 111, 110, 101>>,  \* can someone
       <<99, 97, 110, 32, 97, 110, 121, 111, 110, 101>>,  \* can anyone
       <<104, 101, 108, 112, 32, 110, 101, 101, 100, 101, 100>>,  \* help needed
       <<117, 114, 103, 101, 110, 116>>,  \* urgent
       <<117, 114, 103, 101, 110, 116, 108, 121>>,  \* urgently
       <<97, 115, 97, 112>>,  \* asap
       <<105, 109, 109, 101, 100, 105, 97, 116, 101, 108, 121>>,  \* immediately
       <<115, 101, 97, 114, 99, 104, 105, 110, 103>>,  \* searching
       <<115, 101, 97, 114, 99, 104, 105, 110, 103, 32, 102, 111, 114>>,  \* searching for
       <<102, 105, 110, 100>>,  \* find
       <<102, 105, 110, 100, 105, 110, 103>>,  \* finding
       <<114, 101, 99, 111, 109, 109, 101, 110, 100>>,  \* recommend
       <<114, 101, 99, 111, 109, 109, 101, 110, 100, 97, 116, 105, 111, 110>>,  \* recommendation
       <<115, 117, 103, 103, 101, 115, 116>>,  \* suggest
       <<115, 117, 103, 103, 101, 115, 116, 105, 111, 110>>,  \* suggestion
       <<97, 110, 121, 32, 103, 111, 111, 100>>,  \* any good
       <<107, 111, 105, 32, 97, 99, 104, 97>>,  \* koi acha
       <<107, 111, 105, 32, 97, 99, 99, 104, 97>>,  \* koi accha
       <<110, 101, 100, 100>>,  \* nedd
       <<110, 101, 100>>,  \* ned
       <<114, 101, 113, 117, 114, 105, 101, 100>>,  \* requried
       <<114, 101, 113, 117, 114, 101, 100>>,  \* requred
       <<108, 111, 107, 107, 105, 110, 103>>,  \* lokking
       <<108, 111, 107, 105, 110, 103>>,  \* loking
       <<99, 104, 97, 104, 105, 121, 101>>,  \* chahiye
       <<99, 104, 97, 105, 121, 101>>,  \* chaiye
       <<99, 104, 105, 121, 101>>,  \* chiye
       <<109, 97, 110, 103, 116, 97>>,  \* mangta
       <<109, 97, 110, 103, 116, 105>>,  \* mangti
       <<100, 101, 100, 111>>,  \* dedo
       <<100, 101, 32, 100, 111>>,  \* de do
       <<98, 104, 101, 106, 111>>,  \* bhejo
       <<98, 97, 116, 97, 111>>,  \* batao
       <<98, 97, 116, 97, 32, 100, 111>>,  \* bata do
       <<107, 111, 105, 32, 104, 97, 105>>,  \* koi hai
       <<107, 111, 105, 32, 104, 101>>,  \* koi he
       <<122, 97, 114, 117, 114, 97, 116>>,  \* zarurat
       <<106, 97, 114, 117, 114, 97, 116>>,  \* jarurat
       <<117, 114, 103, 101, 110, 116>>,  \* urgent
       <<106, 97, 108, 100, 105>>,  \* jaldi
       <<116, 117, 114, 97, 110, 116>>,  \* turant
       <<97, 98, 104, 105>>,  \* abhi
       <<102, 111, 114, 97, 110>>  \* foran
    >>

OFFER_INDICATORS ==
    <<
       <<97, 118, 97, 105, 108, 97, 98, 108, 101>>,  \* available
       <<102, 111, 114, 32, 115, 97, 108, 101>>,  \* for sale
       <<115, 101, 108, 108, 105, 110, 103>>,  \* selling
       <<111, 110, 32, 115, 97, 108, 101>>,  \* on sale
       <<99, 111, 110, 116, 97, 99, 116>>,  \* contact
       <<99, 97, 108, 108, 32, 109, 101>>,  \* call me
       <<114, 101, 97, 99, 104, 32, 109, 101>>,  \* reach me
       <<100, 109, 32, 109, 101>>,  \* dm me
       <<109, 101, 115, 115, 97, 103, 101, 32, 109, 101>>,  \* message me
       <<119, 104, 97, 116, 115, 97, 112, 112>>,  \* whatsapp
       <<109, 121, 32, 110, 117, 109, 98, 101, 114>>,  \* my number
       <<99, 111, 110, 116, 97, 99, 116, 32, 109, 101>>,  \* contact me
       <<112, 105, 110, 103, 32, 109, 101>>,  \* ping me
       <<116, 101, 120, 116, 32, 109, 101>>,  \* text me
       <<105, 32, 104, 97, 118, 101>>,  \* i have
       <<105, 32, 97, 109>>,  \* i am
       <<119, 101, 32, 104, 97, 118, 101>>,  \* we have
       <<119, 101, 32, 97, 114, 101>>,  \* we are
       <<119, 97, 110, 116, 32, 116, 111, 32, 115, 101, 108, 108>>,  \* want to sell
       <<119, 97, 110, 116, 32, 115, 101, 108, 108>>,  \* want sell
       <<119, 97, 110, 110, 97, 32, 115, 101, 108, 108>>,  \* wanna sell
       <<115, 101, 108, 108, 105, 110, 103, 32, 109, 121>>,  \* selling my
       <<97, 118, 97, 105, 108, 98, 108, 101>>,  \* availble
       <<97, 118, 97, 108, 97, 98, 108, 101>>,  \* avalable
       <<97, 118, 105, 97, 108, 97, 98, 108, 101>>,  \* avialable
       <<97, 118, 97, 105, 108, 97, 98, 101, 108>>,  \* availabel
       <<115, 101, 108, 105, 110, 103>>,  \* seling
       <<109, 105, 108, 101, 103, 97>>,  \* milega
       <<109, 105, 108, 101, 103, 105>>,  \* milegi
       <<109, 105, 108, 32, 106, 97, 121, 101, 103, 97>>,  \* mil jayega
       <<109, 105, 108, 32, 106, 97, 121, 101, 103, 105>>,  \* mil jayegi
       <<97, 118, 97, 105, 108, 97, 98, 108, 101, 32, 104, 97, 105>>,  \* available hai
       <<98, 101, 99, 104, 110, 97, 32, 104, 97, 105>>,  \* bechna hai
       <<98, 101, 99, 104, 32, 114, 97, 104, 97>>,  \* bech raha
       <<98, 101, 99, 104, 32, 114, 97, 104, 105>>,  \* bech rahi
       <<99, 111, 110, 116, 97, 99, 116, 32, 107, 97, 114, 111>>,  \* contact karo
       <<99, 97, 108, 108, 32, 107, 97, 114, 111>>,  \* call karo
       <<109, 101, 114, 101, 32, 112, 97, 97, 115>>,  \* mere paas
       <<104, 97, 109, 97, 114, 101, 32, 112, 97, 97, 115>>,  \* hamare paas
       <<104, 117, 109, 32, 104, 97, 105>>,  \* hum hai
       <<109, 97, 105, 110, 32, 104, 117, 110>>,  \* main hun
       <<98, 101, 99, 104, 110, 97, 32, 99, 104, 97, 104, 116, 97>>  \* bechna chahta
    >>

owner_keywords ==
    <<
       <<111, 119, 110, 101, 114>>,  \* owner
       <<100, 105, 114, 101, 99, 116, 32, 111, 119, 110, 101, 114>>,  \* direct owner
       <<110, 111, 32, 98, 114, 111, 107, 101, 114>>,  \* no broker
       <<110, 111, 32, 98, 114, 111, 107, 101, 114, 97, 103, 101>>,  \* no brokerage
       <<109, 97, 108, 105, 107>>,  \* malik
       <<111, 119, 110, 101, 114, 32, 100, 105, 114, 101, 99, 116>>,  \* owner direct
       <<98, 121, 32, 111, 119, 110, 101, 114>>,  \* by owner
       <<102, 114, 111, 109, 32, 111, 119, 110, 101, 114>>,  \* from owner
       <<119, 105, 116, 104, 111, 117, 116, 32, 98, 114, 111, 107, 101, 114>>,  \* without broker
       <<98, 114, 111, 107, 101, 114, 97, 103, 101, 32, 102, 114, 101, 101>>,  \* brokerage free
       <<111, 119, 110, 101, 114, 32, 115, 101, 108, 108, 105, 110, 103>>  \* owner selling
    >>

broker_keywords ==
    <<
       <<98, 114, 111, 107, 101, 114>>,  \* broker
       <<97, 103, 101, 110, 116>>,  \* agent
       <<100, 101, 97, 108, 101, 114>>,  \* dealer
       <<98, 114, 111, 107, 101, 114, 97, 103, 101>>,  \* brokerage
       <<99, 111, 109, 109, 105, 115, 115, 105, 111, 110>>,  \* commission
       <<112, 114, 111, 112, 101, 114, 116, 121, 32, 100, 101, 97, 108, 101, 114>>,  \* property dealer
       <<114, 101, 97, 108, 32, 101, 115, 116, 97, 116, 101>>,  \* real estate
       <<100, 97, 108, 97, 108>>,  \* dalal
       <<118, 105, 97, 32, 98, 114, 111, 107, 101, 114>>  \* via broker
    >>

male_keywords ==
    <<
       <<109, 97, 108, 101, 32, 114, 111, 111, 109, 109, 97, 116, 101>>,  \* male roommate
       <<109, 97, 108, 101, 32, 102, 108, 97, 116, 109, 97, 116, 101>>,  \* male flatmate
       <<98, 111, 121, 115, 32, 111, 110, 108, 121>>,  \* boys only
       <<109, 97, 108, 101, 32, 111, 110, 108, 121>>,  \* male only
       <<103, 101, 110, 116, 115, 32, 111, 110, 108, 121>>,  \* gents only
       <<109, 101, 110, 32, 111, 110, 108, 121>>,  \* men only
       <<98, 97, 99, 104, 101, 108, 111, 114, 32, 109, 97, 108, 101>>,  \* bachelor male
       <<109, 97, 108, 101, 32, 98, 97, 99, 104, 101, 108, 111, 114>>,  \* male bachelor
       <<108, 97, 100, 107, 97>>,  \* ladka
       <<108, 97, 100, 107, 101>>,  \* ladke
       <<98, 111, 121, 115, 32, 102, 108, 97, 116, 109, 97, 116, 101>>,  \* boys flatmate
       <<109, 97, 108, 101, 32, 112, 114, 101, 102, 101, 114, 114, 101, 100>>  \* male preferred
    >>

female_keywords ==
    <<
       <<102, 101, 109, 97, 108, 101, 32, 114, 111, 111, 109, 109, 97, 116, 101>>,  \* female roommate
       <<102, 101, 109, 97, 108, 101, 32, 102, 108, 97, 116, 109, 97, 116, 101>>,  \* female flatmate
       <<103, 105, 114, 108, 115, 32, 111, 110, 108, 121>>,  \* girls only
       <<102, 101, 109, 97, 108, 101, 32, 111, 110, 108, 121>>,  \* female only
       <<108, 97, 100, 105, 101, 115, 32, 111, 110, 108, 121>>,  \* ladies only
       <<119, 111, 109, 101, 110, 32, 111, 110, 108, 121>>,  \* women only
       <<108, 97, 100, 121, 32, 102, 108, 97, 116, 109, 97, 116, 101>>,  \* lady flatmate
       <<102, 101, 109, 97, 108, 101, 32, 98, 97, 99, 104, 101, 108, 111, 114>>,  \* female bachelor
       <<108, 97, 100, 107, 105>>,  \* ladki
       <<108, 97, 100, 107, 105, 121, 97, 110>>,  \* ladkiyan
       <<103, 105, 114, 108, 115, 32, 102, 108, 97, 116, 109, 97, 116, 101>>,  \* girls flatmate
       <<102, 101, 109, 97, 108, 101, 32, 112, 114, 101, 102, 101, 114, 114, 101, 100>>  \* female preferred
    >>

\* the number of entries of a list that occur in the text
Hits(items, text) == Cardinality({k \in 1..Len(items) : Contains(text, items[k])})

\* query_score and offer_score: one for every indicator in the lowered text,
\* two more for a question mark, one more for a contact
Scores(text) ==
    [query_score |-> Hits(QUERY_INDICATORS, str_lower(text))
                     + (IF Contains(text, <<63>>) THEN 2 ELSE 0),
     offer_score |-> Hits(OFFER_INDICATORS, str_lower(text))
                     + (IF extract_contact(text) # SqlNullText THEN 1 ELSE 0)]

decide_listing_type_ties_to_query(query_score, offer_score) ==
    IF query_score >= offer_score /\ query_score > 0 THEN <<113, 117, 101, 114, 121>>
    ELSE IF offer_score > 0 THEN <<111, 102, 102, 101, 114>>
    ELSE SqlNullText

decide_listing_type(query_score, offer_score) ==
    IF query_score > offer_score THEN <<113, 117, 101, 114, 121>>
    ELSE IF offer_score > 0 THEN <<111, 102, 102, 101, 114>>
    ELSE SqlNullText

detect_listing_type(text) ==
    LET scores == Scores(text)
    IN  decide_listing_type(scores.query_score, scores.offer_score)

category_score(category_data, text_lower) ==
    2 * Hits(category_data.offer_keywords, text_lower)
    + 2 * Hits(category_data.query_keywords, text_lower)
    + Cardinality({k \in 1..Len(category_data.subcategory_patterns) :
                      search(category_data.subcategory_patterns[k], text_lower)})

\* the match of the last subcategory pattern that matches
category_subcategory(category_data, text_lower) ==
    LET hits == {k \in 1..Len(category_data.subcategory_patterns) :
                    search(category_data.subcategory_patterns[k], text_lower)}
    IN  IF hits = {} THEN SqlNullText
        ELSE group(category_data.subcategory_patterns[
                       CHOOSE a \in hits : \A b \in hits : a >= b], text_lower)

\* the first of `categories` with the highest score, when that score is 2 or
\* more
best_category(categories, text_lower) ==
    LET score == [k \in 1..Len(categories) |-> category_score(categories[k], text_lower)]
        best == CHOOSE k \in 1..Len(categories) :
                    /\ \A j \in 1..Len(categories) : score[j] <= score[k]
                    /\ \A j \in 1..(k - 1) : score[j] < score[k]
    IN  IF score[best] >= 2
        THEN [category |-> categories[best].name,
              subcategory |-> category_subcategory(categories[best], text_lower)]
        ELSE None

\* _detect_category: the scores are taken on the lowered text
detect_category(text) == best_category(CATEGORIES, str_lower(text))

FirstOf(text_lower, first, first_value, second, second_value) ==
    IF Hits(first, text_lower) > 0 THEN first_value
    ELSE IF Hits(second, text_lower) > 0 THEN second_value
    ELSE SqlNullText

extract_property_source(text) ==
    FirstOf(str_lower(text), owner_keywords, <<111, 119, 110, 101, 114>>, broker_keywords, <<98, 114, 111, 107, 101, 114>>)

extract_gender_preference(text) ==
    FirstOf(str_lower(text), male_keywords, <<109, 97, 108, 101>>, female_keywords, <<102, 101, 109, 97, 108, 101>>)

\* the dict _keyword_classify returns has the keys category, subcategory,
\* listing_type and contact, and property_source and gender_preference only
\* when they are set
keyword_dict(listing_type, category_result, contact, source, gender) ==
    IF listing_type = SqlNullText THEN None
    ELSE IF category_result = None THEN None
    ELSE IF source = SqlNullText /\ gender = SqlNullText
    THEN [category |-> category_result.category,
          subcategory |-> category_result.subcategory,
          listing_type |-> listing_type, contact |-> contact]
    ELSE IF source = SqlNullText
    THEN [category |-> category_result.category,
          subcategory |-> category_result.subcategory,
          listing_type |-> listing_type, contact |-> contact,
          gender_preference |-> gender]
    ELSE IF gender = SqlNullText
    THEN [category |-> category_result.category,
          subcategory |-> category_result.subcategory,
          listing_type |-> listing_type, contact |-> contact,
          property_source |-> source]
    ELSE [category |-> category_result.category,
          subcategory |-> category_result.subcategory,
          listing_type |-> listing_type, contact |-> contact,
          property_source |-> source, gender_preference |-> gender]

\* the property source is looked for in property messages, the gender
\* preference where the subcategory or the text speaks of a roommate or flatmate
keyword_attributes(text, listing_type, category_result, contact) ==
    keyword_dict(listing_type, category_result, contact,
        IF category_result.category = <<112, 114, 111, 112, 101, 114, 116, 121>>
        THEN extract_property_source(text) ELSE SqlNullText,
        IF \/ /\ category_result.subcategory # SqlNullText
              /\ \/ Contains(category_result.subcategory, <<114, 111, 111, 109, 109, 97, 116, 101>>)
                 \/ Contains(category_result.subcategory, <<102, 108, 97, 116, 109, 97, 116, 101>>)
           \/ Contains(str_lower(text), <<114, 111, 111, 109, 109, 97, 116, 101>>)
           \/ Contains(str_lower(text), <<102, 108, 97, 116, 109, 97, 116, 101>>)
        THEN extract_gender_preference(text) ELSE SqlNullText)

keyword_classify(text) ==
    keyword_attributes(text, detect_listing_type(text), detect_category(text),
                       extract_contact(text))

\* result.get(key)
dict_get(result, key) == IF key \in DOMAIN result THEN result[key] ELSE SqlNullText

\* classify: the gate, then the Groq classifier when a client is configured,
\* then the keyword scorer.  A remote result without a contact gets the
\* contact the keyword extractor finds in the text.
classify(text, use_llm, llm_result, keyword_result) ==
    IF should_ignore(text)
    THEN [result |-> None, calls |-> <<"_should_ignore">>]
    ELSE IF use_llm /\ llm_result # None
    THEN [result |-> IF llm_result.contact \in {SqlNullText, <<>>}
                     THEN [llm_result EXCEPT !.contact = extract_contact(text)]
                     ELSE llm_result,
          calls |-> <<"_should_ignore", "llm_classifier.classify">>]
    ELSE [result |-> keyword_result,
          calls |-> IF use_llm
                    THEN <<"_should_ignore", "llm_classifier.classify", "_keyword_classify">>
                    ELSE <<"_should_ignore", "_keyword_classify">>]

MaxTextLen == 5

\* blank, "+", "1", "K", "o"
Alphabet == {32, 43, 49, 75, 111}

RECURSIVE TextsOfLen(_)
TextsOfLen(n) ==
    IF n = 0 THEN {<<>>}
    ELSE {<<c>> \o t : c \in Alphabet, t \in TextsOfLen(n - 1)}

\* the messages of test_bot.py that are to be ignored and some that are not,
\* one text or more for every pattern, and texts with blanks around them
SampleTexts ==
    {<<71, 111, 111, 100, 32, 109, 111, 114, 110, 105, 110, 103, 32, 101, 118, 101, 114, 121, 111, 110, 101, 33>>, <<72, 97, 112, 112, 121, 32, 98, 105, 114, 116, 104, 100, 97, 121, 32, 100, 101, 97, 114, 33>>, <<84, 104, 97, 110, 107, 115, 32, 102, 111, 114, 32, 115, 104, 97, 114, 105, 110, 103>>,
     <<79, 107, 32, 110, 111, 116, 101, 100>>, <<78, 101, 101, 100, 32, 97, 32, 112, 108, 117, 109, 98, 101, 114, 32, 117, 114, 103, 101, 110, 116, 108, 121>>, <<50, 66, 72, 75, 32, 102, 108, 97, 116, 32, 102, 111, 114, 32, 114, 101, 110, 116>>,
     <<32, 32, 71, 77, 32, 97, 108, 108, 32, 32>>, <<103, 109, 97, 105, 108, 32, 105, 100, 32, 112, 108, 101, 97, 115, 101>>, <<104, 101, 108, 108, 111>>, <<72, 101, 121, 32, 116, 104, 101, 114, 101>>, <<104, 101, 121, 100, 97, 121, 32, 115, 97, 108, 101>>,
     <<116, 104, 97, 110, 107, 32, 121, 111, 117>>, <<107, 105, 116, 99, 104, 101, 110, 32, 99, 104, 105, 109, 110, 101, 121, 32, 102, 111, 114, 32, 115, 97, 108, 101>>, <<78, 111, 32, 98, 114, 111, 107, 101, 114, 32, 102, 108, 97, 116, 32, 111, 110, 32, 114, 101, 110, 116>>,
     <<119, 105, 115, 104, 105, 110, 103, 32, 121, 111, 117, 32, 97, 32, 104, 97, 112, 112, 121, 32, 100, 105, 119, 97, 108, 105>>, <<119, 105, 115, 104, 32, 108, 105, 115, 116>>, <<67, 111, 110, 103, 114, 97, 116, 115, 33>>,
     <<43, 57, 49, 32, 57, 56, 55, 54, 53>>, <<104, 116, 116, 112, 115, 58, 47, 47, 120, 46, 105, 110>>, <<104, 116, 116, 112, 58, 47, 47, 120, 46, 105, 110>>, <<104, 116, 116, 112, 120, 58, 47, 47>>,
     <<64, 117, 115, 101, 114, 95, 49>>, <<64, 117, 115, 101, 114, 32, 49>>, <<64, 117, 115, 101, 114>> \o <<10>>, <<104, 97, 104, 97, 108, 111, 108>>, <<104, 97, 104, 97, 104, 97>>,
     <<128514, 128514, 128591, 128077, 129315>>, <<128514, 128514, 128591, 128077, 120>>,
     <<116, 104, 101, 101, 107, 32, 104, 97, 105>>, <<116, 104, 101, 101, 107, 104, 97, 105>>, <<32, 9>> \o <<102, 108, 97, 116>> \o <<10>>,
     <<9>> \o <<111, 107, 32, 115, 117, 114, 101>>, <<32, 32, 112, 108, 117, 109, 98, 101, 114, 32, 32>>,
     \* Selling my 2BHK flat in Tower B, 75 lakhs. Contact 9876543210
     <<83, 101, 108, 108, 105, 110, 103, 32, 109, 121, 32, 50, 66, 72, 75, 32, 102, 108, 97, 116, 32, 105, 110, 32, 84, 111, 119, 101, 114, 32, 66, 44, 32, 55, 53, 32, 108, 97, 107, 104, 115, 46, 32, 67, 111, 110, 116, 97, 99, 116, 32, 57, 56, 55, 54, 53, 52, 51, 50, 49, 48>>,
     \* 3BHK available for rent, 25k/month. Call 9123456789
     <<51, 66, 72, 75, 32, 97, 118, 97, 105, 108, 97, 98, 108, 101, 32, 102, 111, 114, 32, 114, 101, 110, 116, 44, 32, 50, 53, 107, 47, 109, 111, 110, 116, 104, 46, 32, 67, 97, 108, 108, 32, 57, 49, 50, 51, 52, 53, 54, 55, 56, 57>>,
     \* Looking for 2BHK to buy, any leads?
     <<76, 111, 111, 107, 105, 110, 103, 32, 102, 111, 114, 32, 50, 66, 72, 75, 32, 116, 111, 32, 98, 117, 121, 44, 32, 97, 110, 121, 32, 108, 101, 97, 100, 115, 63>>,
     \* Flat chahiye rent pe, 2bhk prefer
     <<70, 108, 97, 116, 32, 99, 104, 97, 104, 105, 121, 101, 32, 114, 101, 110, 116, 32, 112, 101, 44, 32, 50, 98, 104, 107, 32, 112, 114, 101, 102, 101, 114>>,
     \* Maid available for morning work, very experienced. 9988776655
     <<77, 97, 105, 100, 32, 97, 118, 97, 105, 108, 97, 98, 108, 101, 32, 102, 111, 114, 32, 109, 111, 114, 110, 105, 110, 103, 32, 119, 111, 114, 107, 44, 32, 118, 101, 114, 121, 32, 101, 120, 112, 101, 114, 105, 101, 110, 99, 101, 100, 46, 32, 57, 57, 56, 56, 55, 55, 54, 54, 53, 53>>,
     \* Need maid urgently for full time work
     <<78, 101, 101, 100, 32, 109, 97, 105, 100, 32, 117, 114, 103, 101, 110, 116, 108, 121, 32, 102, 111, 114, 32, 102, 117, 108, 108, 32, 116, 105, 109, 101, 32, 119, 111, 114, 107>>,
     \* Bathroom mein tap leak ho raha hai, plumber chahiye
     <<66, 97, 116, 104, 114, 111, 111, 109, 32, 109, 101, 105, 110, 32, 116, 97, 112, 32, 108, 101, 97, 107, 32, 104, 111, 32, 114, 97, 104, 97, 32, 104, 97, 105, 44, 32, 112, 108, 117, 109, 98, 101, 114, 32, 99, 104, 97, 104, 105, 121, 101>>,
     \* Electrician available for all work. 9888877776
     <<69, 108, 101, 99, 116, 114, 105, 99, 105, 97, 110, 32, 97, 118, 97, 105, 108, 97, 98, 108, 101, 32, 102, 111, 114, 32, 97, 108, 108, 32, 119, 111, 114, 107, 46, 32, 57, 56, 56, 56, 56, 55, 55, 55, 55, 54>>,
     \* Anyone selling used fridge?
     <<65, 110, 121, 111, 110, 101, 32, 115, 101, 108, 108, 105, 110, 103, 32, 117, 115, 101, 100, 32, 102, 114, 105, 100, 103, 101, 63>>,
     \* Need 2BHK for rent
     <<78, 101, 101, 100, 32, 50, 66, 72, 75, 32, 102, 111, 114, 32, 114, 101, 110, 116>>,
     \* Need 2 bhk flat for sale
     <<78, 101, 101, 100, 32, 50, 32, 98, 104, 107, 32, 102, 108, 97, 116, 32, 102, 111, 114, 32, 115, 97, 108, 101>>,
     \* 2BHK flat available for rent 9988776655
     <<50, 66, 72, 75, 32, 102, 108, 97, 116, 32, 97, 118, 97, 105, 108, 97, 98, 108, 101, 32, 102, 111, 114, 32, 114, 101, 110, 116, 32, 57, 57, 56, 56, 55, 55, 54, 54, 53, 53>>,
     \* Flat for sale, owner direct, call +91 9988776655
     <<70, 108, 97, 116, 32, 102, 111, 114, 32, 115, 97, 108, 101, 44, 32, 111, 119, 110, 101, 114, 32, 100, 105, 114, 101, 99, 116, 44, 32, 99, 97, 108, 108, 32, 43, 57, 49, 32, 57, 57, 56, 56, 55, 55, 54, 54, 53, 53>>,
     \* Looking for male flatmate for 2bhk, boys only
     <<76, 111, 111, 107, 105, 110, 103, 32, 102, 111, 114, 32, 109, 97, 108, 101, 32, 102, 108, 97, 116, 109, 97, 116, 101, 32, 102, 111, 114, 32, 50, 98, 104, 107, 44, 32, 98, 111, 121, 115, 32, 111, 110, 108, 121>>,
     \* Female roommate wanted for 1 rk
     <<70, 101, 109, 97, 108, 101, 32, 114, 111, 111, 109, 109, 97, 116, 101, 32, 119, 97, 110, 116, 101, 100, 32, 102, 111, 114, 32, 49, 32, 114, 107>>,
     \* Maths tutor available for class 10, 919988776655
     <<77, 97, 116, 104, 115, 32, 116, 117, 116, 111, 114, 32, 97, 118, 97, 105, 108, 97, 98, 108, 101, 32, 102, 111, 114, 32, 99, 108, 97, 115, 115, 32, 49, 48, 44, 32, 57, 49, 57, 57, 56, 56, 55, 55, 54, 54, 53, 53>>,
     \* Plumber available? 9988776655
     <<80, 108, 117, 109, 98, 101, 114, 32, 97, 118, 97, 105, 108, 97, 98, 108, 101, 63, 32, 57, 57, 56, 56, 55, 55, 54, 54, 53, 53>>,
     \* Maid available?
     <<77, 97, 105, 100, 32, 97, 118, 97, 105, 108, 97, 98, 108, 101, 63>>,
     \* 9988776655
     <<57, 57, 56, 56, 55, 55, 54, 54, 53, 53>>,
     \* +919876543210
     <<43, 57, 49, 57, 56, 55, 54, 53, 52, 51, 50, 49, 48>>,
     \* 09876543210
     <<48, 57, 56, 55, 54, 53, 52, 51, 50, 49, 48>>,
     \* 91 98765-43210
     <<57, 49, 32, 57, 56, 55, 54, 53, 45, 52, 51, 50, 49, 48>>,
     \* x+91 9988776655 maid available
     <<120, 43, 57, 49, 32, 57, 57, 56, 56, 55, 55, 54, 54, 53, 53, 32, 109, 97, 105, 100, 32, 97, 118, 97, 105, 108, 97, 98, 108, 101>>,
     \* The weather is lovely today
     <<84, 104, 101, 32, 119, 101, 97, 116, 104, 101, 114, 32, 105, 115, 32, 108, 111, 118, 101, 108, 121, 32, 116, 111, 100, 97, 121>>,
     \* Selling
     <<83, 101, 108, 108, 105, 110, 103>>}

Texts == SampleTexts \cup UNION {TextsOfLen(n) : n \in 0..MaxTextLen}

\* answers of the remote classifier
Responses ==
    {\* full answer
     <<67, 65, 84, 69, 71, 79, 82, 89, 58, 32, 112, 114, 111, 112, 101, 114, 116, 121, 10, 84, 89, 80, 69, 58, 32, 111, 102, 102, 101, 114, 10, 83, 85, 66, 67, 65, 84, 69, 71, 79, 82, 89, 58, 32, 50, 98, 104, 107, 10, 80, 82, 79, 80, 69, 82, 84, 89, 95, 84, 89, 80, 69, 58, 32, 114, 101, 110, 116, 10, 71, 69, 78, 68, 69, 82, 95, 80, 82, 69, 70, 69, 82, 69, 78, 67, 69, 58, 32, 110, 111, 110, 101, 10, 67, 79, 78, 84, 65, 67, 84, 58, 32, 110, 111, 110, 101>>,
     \* ignore
     <<67, 65, 84, 69, 71, 79, 82, 89, 58, 32, 105, 103, 110, 111, 114, 101, 10, 84, 89, 80, 69, 58, 32, 110, 111, 110, 101, 10, 83, 85, 66, 67, 65, 84, 69, 71, 79, 82, 89, 58, 32, 110, 111, 110, 101, 10, 80, 82, 79, 80, 69, 82, 84, 89, 95, 84, 89, 80, 69, 58, 32, 110, 111, 110, 101, 10, 71, 69, 78, 68, 69, 82, 95, 80, 82, 69, 70, 69, 82, 69, 78, 67, 69, 58, 32, 110, 111, 110, 101, 10, 67, 79, 78, 84, 65, 67, 84, 58, 32, 110, 111, 110, 101>>,
     \* category outside the enum
     <<67, 65, 84, 69, 71, 79, 82, 89, 58, 32, 103, 114, 111, 99, 101, 114, 121, 10, 84, 89, 80, 69, 58, 32, 111, 102, 102, 101, 114, 10, 83, 85, 66, 67, 65, 84, 69, 71, 79, 82, 89, 58, 32, 110, 111, 110, 101, 10, 80, 82, 79, 80, 69, 82, 84, 89, 95, 84, 89, 80, 69, 58, 32, 110, 111, 110, 101, 10, 71, 69, 78, 68, 69, 82, 95, 80, 82, 69, 70, 69, 82, 69, 78, 67, 69, 58, 32, 110, 111, 110, 101, 10, 67, 79, 78, 84, 65, 67, 84, 58, 32, 110, 111, 110, 101>>,
     \* no colon
     <<112, 114, 111, 112, 101, 114, 116, 121, 32, 111, 102, 102, 101, 114>>,
     \* empty
     <<>>,
     \* category only
     <<67, 65, 84, 69, 71, 79, 82, 89, 58, 32, 112, 114, 111, 112, 101, 114, 116, 121>>,
     \* no category
     <<84, 89, 80, 69, 58, 32, 111, 102, 102, 101, 114, 10, 67, 79, 78, 84, 65, 67, 84, 58, 32, 57, 57, 56, 56, 55, 55, 54, 54, 53, 53>>,
     \* the answer of _test_normalization.py
     <<10, 32, 32, 32, 32, 67, 65, 84, 69, 71, 79, 82, 89, 58, 32, 112, 114, 111, 112, 101, 114, 116, 121, 10, 32, 32, 32, 32, 84, 89, 80, 69, 58, 32, 111, 102, 102, 101, 114, 10, 32, 32, 32, 32, 67, 79, 78, 84, 65, 67, 84, 58, 32, 43, 57, 49, 32, 57, 57, 56, 56, 55, 55, 54, 54, 53, 53, 10, 32, 32, 32, 32>>,
     \* other case, blanks, carriage returns, unknown type
     <<67, 97, 116, 101, 103, 111, 114, 121, 32, 58, 32, 77, 97, 105, 100, 32, 13, 10, 84, 121, 112, 101, 58, 32, 83, 69, 76, 76, 13, 10, 71, 101, 110, 100, 101, 114, 95, 80, 114, 101, 102, 101, 114, 101, 110, 99, 101, 58, 32, 70, 101, 109, 97, 108, 101>>,
     \* category given twice
     <<67, 65, 84, 69, 71, 79, 82, 89, 58, 32, 112, 114, 111, 112, 101, 114, 116, 121, 10, 67, 65, 84, 69, 71, 79, 82, 89, 58, 32, 105, 103, 110, 111, 114, 101>>,
     \* contact that is no number
     <<67, 65, 84, 69, 71, 79, 82, 89, 58, 32, 112, 108, 117, 109, 98, 101, 114, 10, 84, 89, 80, 69, 58, 32, 113, 117, 101, 114, 121, 10, 67, 79, 78, 84, 65, 67, 84, 58, 32, 99, 97, 108, 108, 32, 109, 101>>,
     \* prose before the fields
     <<72, 101, 114, 101, 32, 105, 115, 32, 116, 104, 101, 32, 114, 101, 115, 117, 108, 116, 58, 10, 67, 65, 84, 69, 71, 79, 82, 89, 58, 32, 116, 117, 116, 111, 114, 10, 84, 89, 80, 69, 58, 32, 113, 117, 101, 114, 121, 10, 83, 85, 66, 67, 65, 84, 69, 71, 79, 82, 89, 58, 32, 109, 97, 116, 104, 115>>,
     \* empty contact
     <<67, 65, 84, 69, 71, 79, 82, 89, 58, 32, 109, 97, 105, 100, 10, 84, 89, 80, 69, 58, 32, 111, 102, 102, 101, 114, 10, 67, 79, 78, 84, 65, 67, 84, 58>>,
     \* ten-digit contact
     <<67, 65, 84, 69, 71, 79, 82, 89, 58, 32, 109, 97, 105, 100, 10, 84, 89, 80, 69, 58, 32, 111, 102, 102, 101, 114, 10, 83, 85, 66, 67, 65, 84, 69, 71, 79, 82, 89, 58, 32, 99, 111, 111, 107, 10, 80, 82, 79, 80, 69, 82, 84, 89, 95, 84, 89, 80, 69, 58, 32, 110, 111, 110, 101, 10, 71, 69, 78, 68, 69, 82, 95, 80, 82, 69, 70, 69, 82, 69, 78, 67, 69, 58, 32, 110, 111, 110, 101, 10, 67, 79, 78, 84, 65, 67, 84, 58, 32, 57, 57, 56, 56, 55, 55, 54, 54, 53, 53>>}

Remotes == {Raised} \cup {Answer(r) : r \in Responses}

\* texts with a phone number: what stands before it, a country code, a
\* separator, the number, and what follows
PhoneTexts ==
    {before \o code \o separator \o number \o after :
        before \in {<<>>, <<43>>, <<120>>, <<99, 97, 108, 108, 32, 43>>, <<48>>, <<32>>},
        code \in {<<>>, <<57, 49>>},
        separator \in {<<>>, <<32>>, <<45>>, <<32, 32>>, <<10>>},
        number \in {<<57, 57, 56, 56, 55, 55, 54, 54, 53, 53>>, <<54, 48, 48, 48, 48, 48, 48, 48, 48, 48>>, <<53, 57, 56, 56, 55, 55, 54, 54, 53, 53>>,
                    <<57, 57, 56, 56, 55, 55, 54, 54, 53>>, <<57, 57, 56, 56, 55, 55, 54, 54, 53, 53, 52>>, <<57, 49, 57, 49, 57, 49, 57, 49, 57, 49>>},
        after \in {<<>>, <<32>>, <<97>>, <<49>>, <<46>>, <<32, 57, 49, 50, 51, 52, 53, 54, 55, 56, 57>>}}

\* texts with no, one or two query indicators, no, one or two offer
\* indicators, with and without a question mark and a contact
ScoreTexts ==
    {query \o offer \o contact \o mark :
        query \in {<<>>, <<110, 101, 101, 100, 32>>, <<97, 110, 121, 111, 110, 101, 32, 110, 101, 101, 100, 32>>},
        offer \in {<<>>, <<109, 97, 105, 100, 32, 97, 118, 97, 105, 108, 97, 98, 108, 101, 32>>, <<115, 101, 108, 108, 105, 110, 103, 32, 109, 97, 105, 100, 32, 97, 118, 97, 105, 108, 97, 98, 108, 101, 32>>},
        contact \in {<<>>, <<57, 57, 56, 56, 55, 55, 54, 54, 53, 53>>},
        mark \in {<<>>, <<63>>}}

\* every sample text with every remote outcome; the short texts with a
\* failing call and with one answer
ClassifyInputs ==
    (SampleTexts \X Remotes)
    \cup (Texts \X {Raised, Answer(CHOOSE r \in Responses : Len(r) = 0)})
    \cup (PhoneTexts \X {Raised})
    \cup (ScoreTexts \X {Raised})

\* a run starts with the text of an incoming message and what the remote
\* call is going to give in ret
InitClassify ==
    /\ now = StartTick
    /\ listings = <<>>
    /\ listing_seq = 0
    /\ lead_requests = <<>>
    /\ payment_claims = <<>>
    /\ RAZORPAY_WEBHOOK_SECRET = ""
    /\ sqlite_plan = [bare_row |-> "first", ties |-> "desc"]
    /\ webhook = [w \in 1..NumWorkers |-> Idle]
    /\ outbox = <<>>
    /\ ret \in {[op |-> "message", text |-> i[1], remote |-> i[2]] : i \in ClassifyInputs}

Classify ==
    /\ ret.op = "message"
    /\ \E use_llm \in BOOLEAN :
          ret' = [op |-> "classify", text |-> ret.text, use_llm |-> use_llm,
                  remote |-> ret.remote,
                  out |-> classify(ret.text, use_llm, llm_classify(ret.text, ret.remote),
                                   keyword_classify(ret.text))]
    /\ UNCHANGED now
    /\ store_unchanged
    /\ bot_unchanged

ExtractContact ==
    /\ ret.op = "message"
    /\ ret' = [op |-> "_extract_contact", text |-> ret.text,
               contact |-> extract_contact(ret.text)]
    /\ UNCHANGED now
    /\ store_unchanged
    /\ bot_unchanged

ExtractPhone ==
    /\ ret.op = "message"
    /\ ret' = [op |-> "_extract_phone", text |-> ret.text,
               contact |-> extract_phone(ret.text)]
    /\ UNCHANGED now
    /\ store_unchanged
    /\ bot_unchanged

DetectListingType ==
    /\ ret.op = "message"
    /\ ret' = [op |-> "_detect_listing_type", text |-> ret.text,
               scores |-> Scores(ret.text),
               listing_type |-> detect_listing_type(ret.text)]
    /\ UNCHANGED now
    /\ store_unchanged
    /\ bot_unchanged

NextClassify ==
    \/ Classify
    \/ DetectListingType
    \/ ExtractContact
    \/ ExtractPhone

SpecClassify == InitClassify /\ [][NextClassify]_vars

-----------------------------------------------------------------------------
TenDigitString(c) == Len(c) = 10 /\ \A k \in 1..Len(c) : IsDigit(c[k])

\* C23: contact extraction is idempotent: when an extractor returns a contact
\* for a text, it returns that contact again for the contact.
C23_ExtractionIdempotent ==
    /\ (ret.op = "_extract_contact" /\ ret.contact # SqlNullText)
          => extract_contact(ret.contact) = ret.contact
    /\ (ret.op = "_extract_phone" /\ ret.contact # SqlNullText)
          => extract_phone(ret.contact) = ret.contact

\* a number with country code and separator, of which the extractor kept
\* the last ten digits
C23_Witness ==
    /\ ret.op = "_extract_contact"
    /\ Contains(ret.text, <<43, 57, 49, 32>>)
    /\ TenDigitString(ret.contact)
    /\ ret.contact # ret.text

\* the six fields of the answer format
FormatKeys ==
    {<<67, 65, 84, 69, 71, 79, 82, 89>>, <<84, 89, 80, 69>>, <<83, 85, 66, 67, 65, 84, 69, 71, 79, 82, 89>>, <<80, 82, 79, 80, 69, 82, 84, 89, 95, 84, 89, 80, 69>>,
     <<71, 69, 78, 68, 69, 82, 95, 80, 82, 69, 70, 69, 82, 69, 78, 67, 69>>, <<67, 79, 78, 84, 65, 67, 84>>}

RemoteCalled == ret.op = "classify" /\ Len(ret.out.calls) >= 2 /\ ret.use_llm

\* the category the answer names, ignore when it names none
NamedCategory ==
    data_get(parsed_data(str_strip(ret.remote.content)), <<67, 65, 84, 69, 71, 79, 82, 89>>, <<105, 103, 110, 111, 114, 101>>)

\* the answer lacks a field of the format
PartialAnswer ==
    \E key \in FormatKeys :
        data_get(parsed_data(str_strip(ret.remote.content)), key, SqlNullText) = SqlNullText

FellBack ==
    /\ ret.out.result = keyword_classify(ret.text)
    /\ ret.out.calls = <<"_should_ignore", "llm_classifier.classify", "_keyword_classify">>

C22_ContactNormalized ==
    (ret.op = "classify" /\ ret.out.result # None)
    => \/ ret.out.result.contact = SqlNullText
       \/ TenDigitString(ret.out.result.contact)


ByKeywords ==
    /\ ret.op = "classify"
    /\ ret.out.calls[Len(ret.out.calls)] = "_keyword_classify"
    /\ ret.out.result # None

RentCue == Contains(str_lower(ret.text), <<114, 101, 110, 116>>)
SaleCue == Contains(str_lower(ret.text), <<115, 97, 108, 101>>) \/ Contains(str_lower(ret.text), <<115, 101, 108, 108>>)

\* C24: "Need 2BHK for rent" is classified by the heuristic as category
\* property, listing_type query, property_type rent, with a subcategory
\* containing 2bhk; a message the heuristic classifies as property that has a
\* rent cue and no sale cue carries property_type rent, one with a sale cue
\* and no rent cue carries property_type sale.
C24_PropertyTypeFromCues ==
    /\ (ByKeywords /\ ret.text = <<78, 101, 101, 100, 32, 50, 66, 72, 75, 32, 102, 111, 114, 32, 114, 101, 110, 116>>)
          => /\ ret.out.result.category = <<112, 114, 111, 112, 101, 114, 116, 121>>
             /\ ret.out.result.listing_type = <<113, 117, 101, 114, 121>>
             /\ Contains(ret.out.result.subcategory, <<50, 98, 104, 107>>)
             /\ dict_get(ret.out.result, "property_type") = <<114, 101, 110, 116>>
    /\ (ByKeywords /\ ret.out.result.category = <<112, 114, 111, 112, 101, 114, 116, 121>> /\ RentCue /\ ~SaleCue)
          => dict_get(ret.out.result, "property_type") = <<114, 101, 110, 116>>
    /\ (ByKeywords /\ ret.out.result.category = <<112, 114, 111, 112, 101, 114, 116, 121>> /\ SaleCue /\ ~RentCue)
          => dict_get(ret.out.result, "property_type") = <<115, 97, 108, 101>>


\* C25: with query_score q and offer_score o, where a question mark adds 2
\* to q and a contact that can be extracted adds 1 to o, the listing type is
\* query exactly when q > o, offer exactly when o >= q and o > 0, and null
\* exactly when both are zero.
C25_ListingTypeDecision ==
    ret.op = "_detect_listing_type"
    => LET q == ret.scores.query_score
           o == ret.scores.offer_score
       IN  /\ q = Hits(QUERY_INDICATORS, str_lower(ret.text))
                  + (IF 63 \in {ret.text[k] : k \in 1..Len(ret.text)} THEN 2 ELSE 0)
           /\ o = Hits(OFFER_INDICATORS, str_lower(ret.text))
                  + (IF extract_contact(ret.text) = SqlNullText THEN 0 ELSE 1)
           /\ (ret.listing_type = <<113, 117, 101, 114, 121>>) <=> (q > o)
           /\ (ret.listing_type = <<111, 102, 102, 101, 114>>) <=> (o >= q /\ o > 0)
           /\ (ret.listing_type = SqlNullText) <=> (q = 0 /\ o = 0)

\* a tie of two that goes to offer, the question mark counted
C25_Witness ==
    /\ ret.op = "_detect_listing_type"
    /\ ret.scores.query_score = ret.scores.offer_score
    /\ ret.scores.query_score >= 2
    /\ Contains(ret.text, <<63>>)
    /\ ret.listing_type = <<111, 102, 102, 101, 114>>


-----------------------------------------------------------------------------
(* Two group messages handled side by side: the database calls of           *)
(* handle_message taken one at a time                                       *)

\* the database call a handler makes after `done` of them: the search
\* before the insert
handler_step_search_first(done) == IF done = 0 THEN "find" ELSE "add_listing"

\* the database call a handler makes after `done` of them: add_listing, which
\* commits, then find_interested_buyers or find_matches
handler_step(done) == IF done = 0 THEN "add_listing" ELSE "find"

\* a handler that has its message and the classifier's result
Task(user_id, chat_id, text, result) ==
    [user_id |-> user_id, chat_id |-> chat_id, text |-> text, result |-> result,
     done |-> 0, listing_id |-> 0, found |-> {}]

\* an offer and a query of the same category, subcategory, property type and
\* gender preference
PairInputs ==
    {<<Task(101, 1, MsgFlat,
            [category |-> "property", subcategory |-> s, listing_type |-> "offer",
             contact |-> c, property_type |-> p, gender_preference |-> g]),
       Task(999, 1, MsgPlain,
            [category |-> "property", subcategory |-> s, listing_type |-> "query",
             contact |-> SqlNullText, property_type |-> p, gender_preference |-> g])>> :
        s \in {SqlNullText, Sub2bhk}, c \in {SqlNullText, Contact1},
        p \in {SqlNull, "rent", "sale"}, g \in {SqlNull, "male"}}

InitPair ==
    /\ now = StartTick
    /\ listings = <<>>
    /\ listing_seq = 0
    /\ lead_requests = <<>>
    /\ payment_claims = <<>>
    /\ RAZORPAY_WEBHOOK_SECRET = ""
    /\ sqlite_plan \in SqlitePlans
    /\ webhook = [w \in 1..NumWorkers |-> Idle]
    /\ outbox = <<>>
    /\ ret \in {[op |-> "handle_message", tasks |-> tasks] : tasks \in PairInputs}

\* the next database call of handler i
HandlerStep(i) ==
    LET t == ret.tasks[i]
        result == t.result
        matched == SelectSeq(listings, LAMBDA l :
                       StatsWhere(l, result.category,
                           OppositeType(result.listing_type), result.subcategory,
                           result.property_type, result.gender_preference, now))
    IN  /\ t.done < 2
        /\ IF handler_step(t.done) = "add_listing"
           THEN /\ listings' = add_listing(t.user_id, t.chat_id, result.category,
                                   result.subcategory, result.listing_type,
                                   result.contact, t.text, result.property_type,
                                   result.gender_preference)
                /\ listing_seq' = listing_seq + 1
                /\ ret' = [ret EXCEPT !.tasks[i].done = @ + 1,
                                      !.tasks[i].listing_id = listing_seq + 1]
                /\ UNCHANGED <<lead_requests, outbox>>
           ELSE /\ listings' = IF Len(matched) > 0 /\ result.listing_type = "query"
                               THEN DeleteExpired(listings, now)
                               ELSE listings
                /\ IF Len(matched) > 0
                   THEN /\ lead_requests' = Append(lead_requests,
                               [user_id |-> t.user_id, category |-> result.category,
                                subcategory |-> result.subcategory,
                                property_type |-> result.property_type,
                                gender_preference |-> result.gender_preference,
                                listing_type |-> result.listing_type,
                                source_chat_id |-> t.chat_id, free_leads_sent |-> 0])
                        /\ outbox' = Append(outbox,
                               Message(t.chat_id, "hook", Len(lead_requests) + 1,
                                       <<>>, <<>>, TRUE))
                   ELSE UNCHANGED <<lead_requests, outbox>>
                /\ ret' = [ret EXCEPT !.tasks[i].done = @ + 1,
                                      !.tasks[i].found =
                                          {matched[k].id : k \in 1..Len(matched)}]
                /\ UNCHANGED listing_seq
        /\ UNCHANGED <<now, payment_claims, RAZORPAY_WEBHOOK_SECRET, sqlite_plan, webhook>>

\* time passes while the handlers run
TickPair ==
    /\ now < MaxNow
    /\ now' = now + 1
    /\ UNCHANGED ret
    /\ store_unchanged
    /\ bot_unchanged

NextPair ==
    \/ \E i \in 1..2 : HandlerStep(i)
    \/ TickPair

SpecPair == InitPair /\ [][NextPair]_vars

\* C26: when an offer and a query of the same category, subcategory and
\* attributes are handled side by side, then in every interleaving of their
\* database calls that ends within the listings' lifetime at least one of the
\* two handlers finds the other's listing in its opposite-type search.
C26_OneFindsTheOther ==
    (/\ ret.op = "handle_message"
     /\ \A i \in 1..2 : ret.tasks[i].done = 2
     /\ now < StartTick + ExpiryTicks)
    => \E i \in 1..2 : ret.tasks[3 - i].listing_id \in ret.tasks[i].found

\* the handlers interleaved so that both find the other's listing: both
\* inserts, then both searches
C26_Witness ==
    /\ ret.op = "handle_message"
    /\ \A i \in 1..2 : /\ ret.tasks[i].done = 2
                       /\ ret.tasks[3 - i].listing_id \in ret.tasks[i].found
    /\ Len(lead_requests) = 2


-----------------------------------------------------------------------------
(* A lead request from its preview to the payment: listings come and go     *)
(* while the buyer looks at the free lead and pays                          *)

\* offers of one category, each with its own contact
RevealListings ==
    {[BaseListing EXCEPT !.contact = c] : c \in {Contact1, Contact2, Contact3}}

InitReveal == InitStore({BaseRequest})

AddRevealListing == AddListing(RevealListings, MaxRevealListings)

\* the buyer follows the deep link of the request
GetLeads ==
    \E link_ok \in [t1 : BOOLEAN, t2 : BOOLEAN] : handle_get_leads(999, 1, link_ok)

NextReveal ==
    \/ AddRevealListing
    \/ GetLeads
    \/ Tick
    \/ \E w \in 1..NumWorkers : ReceiveAlone(w)
    \/ \E w \in 1..NumWorkers : WebhookMarkPaid(w)
    \/ \E w \in 1..NumWorkers : WebhookDeliver(w, TRUE)

SpecReveal == InitReveal /\ [][NextReveal]_vars

\* the contacts a message carries
Disclosed(message) == {message.contacts[k] : k \in 1..Len(message.contacts)}

\* the paid-reveal message j answers a claim on the request whose free
\* preview is message i, and both went to the same user
PaidAfterPreview(i, j) ==
    /\ outbox[i].kind = "free_leads"
    /\ outbox[j].kind \in PaidKinds
    /\ outbox[j].ref \in 1..Len(payment_claims)
    /\ payment_claims[outbox[j].ref].request_id = outbox[i].ref
    /\ outbox[j].to = outbox[i].to

\* C27: for a lead request, the contacts delivered on payment are disjoint
\* from the contacts shown to the claimant in the free preview of that
\* request, also when matching listings are inserted or expire between the
\* preview and the payment confirmation.
C27_PaidDisjointFromPreview ==
    \A i \in 1..Len(outbox), j \in 1..Len(outbox) :
        PaidAfterPreview(i, j) => Disclosed(outbox[i]) \cap Disclosed(outbox[j]) = {}


\* the messages a step adds to the outbox
Sent == {outbox'[k] : k \in (Len(outbox) + 1)..Len(outbox')}

\* a handler of the endpoint is about to deliver for claim_id, whose stored
\* status is paid
DeliveringPaid(claim_id) ==
    \E w \in 1..NumWorkers :
        /\ webhook[w].pc = "deliver"
        /\ webhook[w].claim.id = claim_id
        /\ claim_id \in 1..Len(payment_claims)
        /\ payment_claims[claim_id].status = "paid"

\* a handler of the endpoint has accepted a confirmation of the payment link
\* of claim_id and is about to update its status
ConfirmationAccepted(claim_id) ==
    \E w \in 1..NumWorkers :
        /\ webhook[w].pc = "mark_paid"
        /\ webhook[w].claim.id = claim_id
        /\ webhook[w].body.event = "payment_link.paid"
        /\ webhook[w].body.link_id = payment_claims[claim_id].razorpay_link_id
        /\ verify_webhook_signature(webhook[w].body, webhook[w].signature)

\* C28: a paid-reveal message for a claim is sent only when the claim's status
\* has been set to paid, only an accepted payment confirmation sets it, and
\* the message goes to the user recorded on the claim; no other step sends a
\* paid reveal or more contacts than the free count.
C28_PaidRevealGated ==
    [][/\ \A m \in Sent :
             (m.kind \in PaidKinds \/ Len(m.contacts) > FREE_LEADS_COUNT)
             => /\ m.kind \in PaidKinds
                /\ DeliveringPaid(m.ref)
                /\ m.to = payment_claims[m.ref].user_id
       /\ \A c \in 1..Len(payment_claims) :
             (payment_claims'[c].status = "paid" /\ payment_claims[c].status # "paid")
             => ConfirmationAccepted(c)]_vars

\* a paid reveal with a contact reached its buyer after a confirmation whose
\* signature was verified against the configured secret
C28_Witness ==
    /\ RAZORPAY_WEBHOOK_SECRET = ProviderSecret
    /\ \E k \in 1..Len(outbox) :
          /\ outbox[k].kind = "paid_leads"
          /\ Len(outbox[k].contacts) >= 1
          /\ outbox[k].to = payment_claims[outbox[k].ref].user_id
          /\ payment_claims[outbox[k].ref].status = "paid"


\* the leads there are for a request: the groups of its matching listings
Available(request_id) ==
    LET req == get_lead_request(request_id)
    IN  IF req = NoRow THEN 0
        ELSE Cardinality(GroupBy(SelectSeq(listings, LAMBDA l : LeadsWhere(l, req, now))))

\* a step is a handling of a Get-Leads deep link
GetLeadsHandled == ret'.op = "handle_get_leads" /\ outbox' # outbox

\* the contacts the step discloses
DisclosedNow == UNION {Disclosed(m) : m \in Sent}

\* the step offers the upsell with payment links
UpsellOffered == \E m \in Sent : m.kind = "upsell" /\ Len(m.buttons) > 0

\* C29 as stated: each handling of a Get-Leads deep link discloses at most
\* FREE_LEADS_COUNT contacts, and offers the upsell with payment links if and
\* only if more than FREE_LEADS_COUNT leads are available for the request.
C29_FreeWindowAndUpsell ==
    [][GetLeadsHandled
       => /\ Cardinality(DisclosedNow) <= FREE_LEADS_COUNT
          /\ UpsellOffered <=> Available(ret'.request_id) > FREE_LEADS_COUNT]_vars

\* C29, amended: each handling of a Get-Leads deep link discloses at most
\* FREE_LEADS_COUNT contacts; the upsell with payment links is offered only
\* if more than FREE_LEADS_COUNT leads are available, and when more are
\* available the visitor gets the upsell or, if no payment link could be
\* created, the notice that payment is unavailable.
C29_FreeWindowAndUpsellIfLinks ==
    [][GetLeadsHandled
       => /\ Cardinality(DisclosedNow) <= FREE_LEADS_COUNT
          /\ UpsellOffered => Available(ret'.request_id) > FREE_LEADS_COUNT
          /\ Available(ret'.request_id) > FREE_LEADS_COUNT
             => \/ UpsellOffered /\ Len(payment_claims') > Len(payment_claims)
                \/ /\ \E m \in Sent : m.kind = "payment_unavailable"
                   /\ payment_claims' = payment_claims]_vars

\* three leads were available, one was disclosed and the upsell came with
\* both payment links
C29_Witness ==
    /\ ret.op = "handle_get_leads"
    /\ Available(ret.request_id) = 3
    /\ \E i \in 1..Len(outbox), j \in 1..Len(outbox) :
          /\ outbox[i].kind = "free_leads"
          /\ Len(outbox[i].contacts) = FREE_LEADS_COUNT
          /\ outbox[j].kind = "upsell"
          /\ Len(outbox[j].buttons) = 2


\* C30: whenever message handling creates a lead request, because the
\* opposite-type search behind the hook reported results, resolving that
\* request at once, with no write in between, returns at least one lead.
C30_HookImpliesLead ==
    [][Len(lead_requests') > Len(lead_requests)
       => Len(SelectLeads(listings', lead_requests'[Len(lead_requests')],
                          FREE_LEADS_COUNT, 0)) >= 1]_vars


-----------------------------------------------------------------------------
(* The listing store while rows expire: inserts, reads, and cleanup calls   *)
(* of several processes side by side                                        *)

\* the operations of the listing store that the bot's handlers call
StoreOperations ==
    {"add_listing", "get_leads_for_request", "get_match_stats",
     "get_matching_listings", "get_matching_queries"}

\* one call of cleanup_expired: where it stands, the datetime.now() it bound
\* to its DELETE, and the rowcount it returned
NoCleanup == [pc |-> "idle", t |-> 0, deleted |-> 0]

Later(a, b) == IF a > b THEN a ELSE b

\* a run keeps in ret the cleanup calls under way, the operation that
\* completed last and the time it bound, the latest time a purge ran with, and
\* every row ever inserted
InitSweep ==
    /\ now = StartTick
    /\ listings = <<>>
    /\ listing_seq = 0
    /\ lead_requests = <<BaseRequest>>
    /\ payment_claims = <<>>
    /\ RAZORPAY_WEBHOOK_SECRET = ""
    /\ sqlite_plan = [bare_row |-> "first", ties |-> "desc"]
    /\ webhook = [w \in 1..NumWorkers |-> Idle]
    /\ outbox = <<>>
    /\ ret = [op |-> "store", calls |-> [w \in 1..NumWorkers |-> NoCleanup],
              last |-> [name |-> "init_db", t |-> StartTick], swept |-> 0,
              inserted |-> <<>>]

AddSweepListing ==
    /\ listing_seq < MaxSweepListings
    /\ listings' = add_listing(BaseListing.user_id, BaseListing.chat_id,
                       BaseListing.category, BaseListing.subcategory,
                       BaseListing.listing_type, BaseListing.contact,
                       BaseListing.message, BaseListing.property_type,
                       BaseListing.gender_preference)
    /\ listing_seq' = listing_seq + 1
    /\ ret' = [ret EXCEPT !.last = [name |-> "add_listing", t |-> now],
                          !.inserted = Append(@, listings'[Len(listings')])]
    /\ UNCHANGED <<now, lead_requests, payment_claims>>
    /\ bot_unchanged

\* a read of the store; get_matching_listings starts with the DELETE of the
\* expired rows, the other three only select
StoreRead ==
    /\ \E name \in StoreOperations \ {"add_listing"} :
          /\ listings' = IF name = "get_matching_listings"
                         THEN DeleteExpired(listings, now) ELSE listings
          /\ ret' = [ret EXCEPT !.last = [name |-> name, t |-> now],
                                !.swept = IF name = "get_matching_listings"
                                          THEN Later(@, now) ELSE @]
    /\ UNCHANGED <<now, listing_seq, lead_requests, payment_claims>>
    /\ bot_unchanged

\* cleanup_expired binds datetime.now() ...
CleanupStart(w) ==
    /\ ret.calls[w].pc = "idle"
    /\ ret' = [ret EXCEPT !.calls[w] = [pc |-> "delete", t |-> now, deleted |-> 0]]
    /\ UNCHANGED now
    /\ store_unchanged
    /\ bot_unchanged

\* ... and its DELETE runs when the database lets it write: rowcount, commit
CleanupDelete(w) ==
    /\ ret.calls[w].pc = "delete"
    /\ listings' = DeleteExpired(listings, ret.calls[w].t)
    /\ ret' = [ret EXCEPT !.calls[w].pc = "idle",
                          !.calls[w].deleted = Len(listings) - Len(listings'),
                          !.last = [name |-> "cleanup_expired", t |-> ret.calls[w].t],
                          !.swept = Later(@, ret.calls[w].t)]
    /\ UNCHANGED <<now, listing_seq, lead_requests, payment_claims>>
    /\ bot_unchanged

TickSweep ==
    /\ now < StartTick + SweepHorizon
    /\ now' = now + 1
    /\ UNCHANGED ret
    /\ store_unchanged
    /\ bot_unchanged

NextSweep ==
    \/ AddSweepListing
    \/ StoreRead
    \/ \E w \in 1..NumWorkers : CleanupStart(w)
    \/ \E w \in 1..NumWorkers : CleanupDelete(w)
    \/ TickSweep

SpecSweep == InitSweep /\ [][NextSweep]_vars

\* the row expires before the instant t
ExpiredBefore(l, t) == InstantOf(l.expires_at) < t

\* C31: no operation modifies a field of a stored listing, and a listing is
\* removed from the table only by an expiry purge (cleanup_expired or the
\* DELETE of get_matching_listings) and only when its expires_at is earlier
\* than the current time.
C31_AppendOnlyUntilExpiry ==
    [][\A i \in 1..Len(listings) :
          \/ \E j \in 1..Len(listings') : listings'[j] = listings[i]
          \/ /\ \A j \in 1..Len(listings') : listings'[j].id # listings[i].id
             /\ ret'.last.name \in {"cleanup_expired", "get_matching_listings"}
             /\ ExpiredBefore(listings[i], now)]_vars

\* a purge took the expired row and left the other as it was inserted
C31_Witness ==
    /\ ret.op = "store"
    /\ Len(ret.inserted) = 2
    /\ listings = <<ret.inserted[2]>>


\* cleanup call w completes in this step
CleanupCompletes(w) == ret.calls[w].pc = "delete" /\ ret'.calls[w].pc = "idle"

\* the rows of a table that have not expired before t
Surviving(table, t) == SelectSeq(table, LAMBDA l : ~ExpiredBefore(l, t))

\* C35: cleanup_expired deletes exactly the listings whose expires_at is
\* earlier than the time it bound and returns their number; a call whose time
\* an earlier purge already covered deletes nothing and returns 0; and, however
\* concurrent cleanup calls interleave, the table is what one purge at the
\* latest of their times leaves of the rows inserted.
C35_CleanupExactIdempotent ==
    [][/\ \A w \in 1..NumWorkers :
             CleanupCompletes(w)
             => /\ listings' = Surviving(listings, ret.calls[w].t)
                /\ ret'.calls[w].deleted =
                       Cardinality({i \in 1..Len(listings) :
                                       ExpiredBefore(listings[i], ret.calls[w].t)})
                /\ ret.calls[w].t <= ret.swept
                   => listings' = listings /\ ret'.calls[w].deleted = 0
       /\ listings' = Surviving(ret'.inserted, ret'.swept)]_vars

\* two cleanup calls bound the same time: one deleted the expired row, the
\* other deleted nothing
C35_Witness ==
    /\ ret.op = "store"
    /\ \A w \in 1..NumWorkers : ret.calls[w].pc = "idle"
    /\ ret.calls[1].t = ret.calls[2].t
    /\ ret.calls[1].deleted = 1
    /\ ret.calls[2].deleted = 0
    /\ ret.last.name = "cleanup_expired"


\* C36: after any operation of the listing store (add_listing,
\* get_leads_for_request, get_match_stats, get_matching_listings,
\* get_matching_queries) completes, the table contains no row whose
\* expires_at is earlier than the time of that call.
C36_LazyPurgeOnEveryPath ==
    (ret.op = "store" /\ ret.last.name \in StoreOperations)
    => \A i \in 1..Len(listings) : ~ExpiredBefore(listings[i], ret.last.t)


\* what a lead request froze: the user, the search and where it came from
Snapshot(req) ==
    <<req.user_id, req.category, req.subcategory, req.property_type,
      req.gender_preference, req.listing_type, req.source_chat_id>>

\* C32: once save_lead_request has returned id i, every later
\* get_lead_request(i), after any listing inserts, purges, deep-link visits and
\* payment events, returns a row with the same user, category, subcategory,
\* property_type, gender_preference, direction and origin chat; the request is
\* never deleted.
C32_RequestFrozen ==
    [][\A i \in 1..Len(lead_requests) :
          /\ get_lead_request(i)' # NoRow
          /\ Snapshot(get_lead_request(i)') = Snapshot(get_lead_request(i))]_vars

\* the first request is still there after a later message created a second
\* one, its free preview was sent and a payment was delivered
C32_Witness ==
    /\ Len(lead_requests) >= 2
    /\ Snapshot(get_lead_request(1)) # Snapshot(get_lead_request(2))
    /\ \E k \in 1..Len(outbox) : outbox[k].kind = "free_leads"
    /\ \E k \in 1..Len(outbox) : outbox[k].kind \in PaidKinds


\* C33: in every reachable state every payment claim references a lead
\* request that exists in the store.
C33_ClaimsReferenceRequests ==
    \A c \in 1..Len(payment_claims) :
        payment_claims[c].request_id \in 1..Len(lead_requests)

\* the claims of both tiers were just saved for a stored request
C33_Witness ==
    /\ Len(payment_claims) = 2
    /\ \A c \in 1..Len(payment_claims) :
          get_lead_request(payment_claims[c].request_id) # NoRow
    /\ ret.op = "handle_get_leads"


\* the claim rows a step adds
NewClaims == SubSeq(payment_claims', Len(payment_claims) + 1, Len(payment_claims'))

\* the tiers for which the provider returned a payment link
TiersWithLink(link_ok) ==
    {tier \in {"t1", "t2"} : IF tier = "t1" THEN link_ok.t1 ELSE link_ok.t2}

\* C34: a payment claim is persisted only after the provider returned a
\* payment link, in status created and carrying that link's id; when link
\* creation fails for a tier no claim row is written for that tier, and when
\* it fails for both tiers the user receives the payment-unavailable message
\* and the claims table is unchanged.
C34_ClaimOnlyWithLink ==
    [][GetLeadsHandled
       => \E link_ok \in [t1 : BOOLEAN, t2 : BOOLEAN] :
             /\ handle_get_leads(999, ret'.request_id, link_ok)
             /\ SubSeq(payment_claims', 1, Len(payment_claims)) = payment_claims
             /\ \A k \in 1..Len(NewClaims) :
                   /\ NewClaims[k].status = "created"
                   /\ NewClaims[k].tier \in TiersWithLink(link_ok)
                   /\ \E m \in Sent : \E b \in 1..Len(m.buttons) :
                         m.buttons[b] = NewClaims[k].razorpay_link_id
                   /\ \A j \in 1..Len(NewClaims) : j # k => NewClaims[j].tier # NewClaims[k].tier
             /\ Available(ret'.request_id) > FREE_LEADS_COUNT
                => /\ {NewClaims[k].tier : k \in 1..Len(NewClaims)} = TiersWithLink(link_ok)
                   /\ TiersWithLink(link_ok) = {}
                      => /\ \E m \in Sent : m.kind = "payment_unavailable"
                         /\ payment_claims' = payment_claims]_vars

\* the first link failed and the second was created: one claim, of tier 2,
\* behind the one button of the upsell
C34_Witness ==
    /\ ret.op = "handle_get_leads"
    /\ Len(payment_claims) = 1
    /\ payment_claims[1].tier = "t2"
    /\ payment_claims[1].status = "created"
    /\ \E k \in 1..Len(outbox) :
          outbox[k].kind = "upsell" /\ outbox[k].buttons = <<payment_claims[1].razorpay_link_id>>


\* the free leads disclosed so far for a request: the contacts of its free
\* previews
RECURSIVE FreeLeadsDisclosed(_, _)
FreeLeadsDisclosed(request_id, k) ==
    IF k = 0 THEN 0
    ELSE FreeLeadsDisclosed(request_id, k - 1)
         + (IF outbox[k].kind = "free_leads" /\ outbox[k].ref = request_id
            THEN Len(outbox[k].contacts) ELSE 0)

\* C38: after a free preview that disclosed k leads has been sent for a
\* request, the request's free_leads_sent equals the number of free leads
\* disclosed for it.
C38_FreeLeadsCounted ==
    \A i \in 1..Len(lead_requests) :
        lead_requests[i].free_leads_sent = FreeLeadsDisclosed(i, Len(outbox))


-----------------------------------------------------------------------------
(* Group messages from the update to the store: bot.py handle_message with
   the classifier in front of it.  A run handles two updates; the
   allowed-chat list and whether a Groq client is configured are fixed for
   the run.  ret holds the configuration, the updates still to come and the
   updates handled. *)

\* a restriction that lets every chat through
is_allowed_chat_any(chat_id, ALLOWED_CHAT_IDS) == TRUE

\* if not ALLOWED_CHAT_IDS: return True;  return chat_id in ALLOWED_CHAT_IDS
is_allowed_chat(chat_id, ALLOWED_CHAT_IDS) ==
    IF ALLOWED_CHAT_IDS = {} THEN TRUE ELSE chat_id \in ALLOWED_CHAT_IDS

\* the values of the four enumerated columns, as the classifiers spell them
\* and as the store holds them
ColumnValues ==
    <<<<<<112, 114, 111, 112, 101, 114, 116, 121>>, "property">>, <<<<102, 117, 114, 110, 105, 116, 117, 114, 101>>, "furniture">>,
      <<<<109, 97, 105, 100>>, "maid">>, <<<<112, 108, 117, 109, 98, 101, 114>>, "plumber">>,
      <<<<101, 108, 101, 99, 116, 114, 105, 99, 105, 97, 110>>, "electrician">>, <<<<99, 97, 114, 112, 101, 110, 116, 101, 114>>, "carpenter">>,
      <<<<100, 114, 105, 118, 101, 114>>, "driver">>, <<<<97, 99, 95, 114, 101, 112, 97, 105, 114>>, "ac_repair">>,
      <<<<116, 117, 116, 111, 114>>, "tutor">>, <<<<112, 97, 99, 107, 101, 114, 115, 95, 109, 111, 118, 101, 114, 115>>, "packers_movers">>,
      <<<<118, 101, 104, 105, 99, 108, 101>>, "vehicle">>, <<<<112, 101, 115, 116, 95, 99, 111, 110, 116, 114, 111, 108>>, "pest_control">>,
      <<<<112, 97, 105, 110, 116, 101, 114>>, "painter">>, <<<<115, 101, 99, 117, 114, 105, 116, 121, 95, 103, 117, 97, 114, 100>>, "security_guard">>,
      <<<<111, 102, 102, 101, 114>>, "offer">>, <<<<113, 117, 101, 114, 121>>, "query">>,
      <<<<115, 97, 108, 101>>, "sale">>, <<<<114, 101, 110, 116>>, "rent">>,
      <<<<109, 97, 108, 101>>, "male">>, <<<<102, 101, 109, 97, 108, 101>>, "female">>>>

\* a classifier value as the column holds it: None is NULL, and a text that
\* is none of the enumerated values is kept apart from all of them
column(value) ==
    IF value = SqlNullText THEN SqlNull
    ELSE IF \E k \in 1..Len(ColumnValues) : ColumnValues[k][1] = value
    THEN ColumnValues[CHOOSE k \in 1..Len(ColumnValues) : ColumnValues[k][1] = value][2]
    ELSE "(other)"

\* result["category"], result["subcategory"], result["listing_type"],
\* result["contact"], result.get("property_type"),
\* result.get("gender_preference") as handle_message passes them on
classified(result) ==
    [category |-> column(result.category),
     subcategory |-> result.subcategory,
     listing_type |-> column(result.listing_type),
     contact |-> result.contact,
     property_type |-> column(dict_get(result, "property_type")),
     gender_preference |-> column(dict_get(result, "gender_preference"))]

\* handle_message from its first line, `result` being what
\* classifier.classify(text) gives: the update is left alone when it has no
\* text, comes from no group or from a group that is not allowed, when the
\* classifier gives nothing, and when the listing type is neither offer nor
\* query
handle_update(u, ALLOWED_CHAT_IDS, result) ==
    IF \/ u.text = <<>>
       \/ u.chat_type \notin {"group", "supergroup"}
       \/ ~is_allowed_chat(u.chat_id, ALLOWED_CHAT_IDS)
       \/ result = None
    THEN UNCHANGED <<listings, listing_seq, lead_requests, outbox>>
    ELSE IF column(result.listing_type) \in {"offer", "query"}
    THEN store_message(u.user_id, u.chat_id, u.text, classified(result))
    ELSE UNCHANGED <<listings, listing_seq, lead_requests, outbox>>

\* the texts of the group messages: greetings the gate stops, small talk no
\* keyword fits, offers and queries of two categories, with and without a
\* contact and a gender preference, and an update without text
GroupTexts ==
    {<<>>,
     <<71, 111, 111, 100, 32, 109, 111, 114, 110, 105, 110, 103, 32, 101, 118, 101, 114, 121, 111, 110, 101, 33>>,
     <<84, 104, 101, 32, 119, 101, 97, 116, 104, 101, 114, 32, 105, 115, 32, 108, 111, 118, 101, 108, 121, 32, 116, 111, 100, 97, 121>>,
     <<77, 97, 105, 100, 32, 97, 118, 97, 105, 108, 97, 98, 108, 101, 32, 102, 111, 114, 32, 109, 111, 114, 110, 105, 110, 103, 32, 119, 111, 114, 107, 44, 32, 118, 101, 114, 121, 32, 101, 120, 112, 101, 114, 105, 101, 110, 99, 101, 100, 46, 32, 57, 57, 56, 56, 55, 55, 54, 54, 53, 53>>,
     <<78, 101, 101, 100, 32, 109, 97, 105, 100, 32, 117, 114, 103, 101, 110, 116, 108, 121, 32, 102, 111, 114, 32, 102, 117, 108, 108, 32, 116, 105, 109, 101, 32, 119, 111, 114, 107>>,
     <<50, 66, 72, 75, 32, 102, 108, 97, 116, 32, 97, 118, 97, 105, 108, 97, 98, 108, 101, 32, 102, 111, 114, 32, 114, 101, 110, 116, 32, 57, 57, 56, 56, 55, 55, 54, 54, 53, 53>>,
     <<78, 101, 101, 100, 32, 50, 66, 72, 75, 32, 102, 111, 114, 32, 114, 101, 110, 116>>,
     <<76, 111, 111, 107, 105, 110, 103, 32, 102, 111, 114, 32, 109, 97, 108, 101, 32, 102, 108, 97, 116, 109, 97, 116, 101, 32, 102, 111, 114, 32, 50, 98, 104, 107, 44, 32, 98, 111, 121, 115, 32, 111, 110, 108, 121>>,
     <<70, 101, 109, 97, 108, 101, 32, 114, 111, 111, 109, 109, 97, 116, 101, 32, 119, 97, 110, 116, 101, 100, 32, 102, 111, 114, 32, 49, 32, 114, 107>>}

\* what the Groq call gives: an exception, the answer "ignore", a category
\* outside the list, complete answers, and an answer whose type, property
\* type and gender preference are none of the values asked for
GroupRemotes ==
    {Raised,
     Answer(<<67, 65, 84, 69, 71, 79, 82, 89, 58, 32, 105, 103, 110, 111, 114, 101, 10, 84, 89, 80, 69, 58, 32, 110, 111, 110, 101, 10, 83, 85, 66, 67, 65, 84, 69, 71, 79, 82, 89, 58, 32, 110, 111, 110, 101, 10, 80, 82, 79, 80, 69, 82, 84, 89, 95, 84, 89, 80, 69, 58, 32, 110, 111, 110, 101, 10, 71, 69, 78, 68, 69, 82, 95, 80, 82, 69, 70, 69, 82, 69, 78, 67, 69, 58, 32, 110, 111, 110, 101, 10, 67, 79, 78, 84, 65, 67, 84, 58, 32, 110, 111, 110, 101>>),
     Answer(<<67, 65, 84, 69, 71, 79, 82, 89, 58, 32, 103, 114, 111, 99, 101, 114, 121, 10, 84, 89, 80, 69, 58, 32, 111, 102, 102, 101, 114, 10, 83, 85, 66, 67, 65, 84, 69, 71, 79, 82, 89, 58, 32, 110, 111, 110, 101, 10, 80, 82, 79, 80, 69, 82, 84, 89, 95, 84, 89, 80, 69, 58, 32, 110, 111, 110, 101, 10, 71, 69, 78, 68, 69, 82, 95, 80, 82, 69, 70, 69, 82, 69, 78, 67, 69, 58, 32, 110, 111, 110, 101, 10, 67, 79, 78, 84, 65, 67, 84, 58, 32, 110, 111, 110, 101>>),
     Answer(<<67, 65, 84, 69, 71, 79, 82, 89, 58, 32, 112, 114, 111, 112, 101, 114, 116, 121, 10, 84, 89, 80, 69, 58, 32, 111, 102, 102, 101, 114, 10, 83, 85, 66, 67, 65, 84, 69, 71, 79, 82, 89, 58, 32, 50, 98, 104, 107, 10, 80, 82, 79, 80, 69, 82, 84, 89, 95, 84, 89, 80, 69, 58, 32, 114, 101, 110, 116, 10, 71, 69, 78, 68, 69, 82, 95, 80, 82, 69, 70, 69, 82, 69, 78, 67, 69, 58, 32, 110, 111, 110, 101, 10, 67, 79, 78, 84, 65, 67, 84, 58, 32, 110, 111, 110, 101>>),
     Answer(<<67, 65, 84, 69, 71, 79, 82, 89, 58, 32, 112, 114, 111, 112, 101, 114, 116, 121, 10, 84, 89, 80, 69, 58, 32, 113, 117, 101, 114, 121, 10, 83, 85, 66, 67, 65, 84, 69, 71, 79, 82, 89, 58, 32, 50, 98, 104, 107, 10, 80, 82, 79, 80, 69, 82, 84, 89, 95, 84, 89, 80, 69, 58, 32, 114, 101, 110, 116, 10, 71, 69, 78, 68, 69, 82, 95, 80, 82, 69, 70, 69, 82, 69, 78, 67, 69, 58, 32, 102, 101, 109, 97, 108, 101, 10, 67, 79, 78, 84, 65, 67, 84, 58, 32, 110, 111, 110, 101>>),
     Answer(<<67, 97, 116, 101, 103, 111, 114, 121, 32, 58, 32, 77, 97, 105, 100, 32, 13, 10, 84, 121, 112, 101, 58, 32, 83, 69, 76, 76, 13, 10, 80, 114, 111, 112, 101, 114, 116, 121, 95, 84, 121, 112, 101, 58, 32, 108, 101, 97, 115, 101, 13, 10, 71, 101, 110, 100, 101, 114, 95, 80, 114, 101, 102, 101, 114, 101, 110, 99, 101, 58, 32, 65, 110, 121>>)}

AllowedChat == 0 - 100
OtherChat == 0 - 200

\* the first update of a run
FirstUpdates ==
    {[user_id |-> 101, chat_type |-> chat_type, chat_id |-> chat_id,
      text |-> text, remote |-> remote] :
        chat_type \in {"group", "private"}, chat_id \in {AllowedChat, OtherChat},
        text \in GroupTexts, remote \in GroupRemotes}

\* the second one comes from the allowed group
SecondUpdates ==
    {[user_id |-> 102, chat_type |-> "supergroup", chat_id |-> AllowedChat,
      text |-> text, remote |-> remote] :
        text \in {<<77, 97, 105, 100, 32, 97, 118, 97, 105, 108, 97, 98, 108, 101, 32, 102, 111, 114, 32, 109, 111, 114, 110, 105, 110, 103, 32, 119, 111, 114, 107, 44, 32, 118, 101, 114, 121, 32, 101, 120, 112, 101, 114, 105, 101, 110, 99, 101, 100, 46, 32, 57, 57, 56, 56, 55, 55, 54, 54, 53, 53>>,
                  <<78, 101, 101, 100, 32, 109, 97, 105, 100, 32, 117, 114, 103, 101, 110, 116, 108, 121, 32, 102, 111, 114, 32, 102, 117, 108, 108, 32, 116, 105, 109, 101, 32, 119, 111, 114, 107>>,
                  <<50, 66, 72, 75, 32, 102, 108, 97, 116, 32, 97, 118, 97, 105, 108, 97, 98, 108, 101, 32, 102, 111, 114, 32, 114, 101, 110, 116, 32, 57, 57, 56, 56, 55, 55, 54, 54, 53, 53>>,
                  <<78, 101, 101, 100, 32, 50, 66, 72, 75, 32, 102, 111, 114, 32, 114, 101, 110, 116>>},
        remote \in {Raised,
                    Answer(<<67, 65, 84, 69, 71, 79, 82, 89, 58, 32, 112, 114, 111, 112, 101, 114, 116, 121, 10, 84, 89, 80, 69, 58, 32, 113, 117, 101, 114, 121, 10, 83, 85, 66, 67, 65, 84, 69, 71, 79, 82, 89, 58, 32, 50, 98, 104, 107, 10, 80, 82, 79, 80, 69, 82, 84, 89, 95, 84, 89, 80, 69, 58, 32, 114, 101, 110, 116, 10, 71, 69, 78, 68, 69, 82, 95, 80, 82, 69, 70, 69, 82, 69, 78, 67, 69, 58, 32, 102, 101, 109, 97, 108, 101, 10, 67, 79, 78, 84, 65, 67, 84, 58, 32, 110, 111, 110, 101>>)}}

InitGroup ==
    /\ now = StartTick
    /\ listings = <<>>
    /\ listing_seq = 0
    /\ lead_requests = <<>>
    /\ payment_claims = <<>>
    /\ RAZORPAY_WEBHOOK_SECRET = ""
    /\ sqlite_plan = [bare_row |-> "first", ties |-> "desc"]
    /\ webhook = [w \in 1..NumWorkers |-> Idle]
    /\ outbox = <<>>
    /\ ret \in {[op |-> "updates", ALLOWED_CHAT_IDS |-> allowed, use_llm |-> use_llm,
                 queue |-> <<first, second>>, seen |-> <<>>] :
                    allowed \in {{}, {AllowedChat}}, use_llm \in BOOLEAN,
                    first \in FirstUpdates, second \in SecondUpdates}

\* classifier.classify(text) for every text of a run, with and without a
\* Groq client and for every outcome of the Groq call
Classified ==
    [use_llm \in BOOLEAN |-> [text \in GroupTexts |-> [remote \in GroupRemotes |->
        classify(text, use_llm, llm_classify(text, remote),
                 keyword_classify(text)).result]]]

classifier_classify(u, use_llm) == Classified[use_llm][u.text][u.remote]

\* the application hands the next update to handle_message
HandleUpdate ==
    /\ ret.op = "updates"
    /\ ret.queue # <<>>
    /\ handle_update(Head(ret.queue), ret.ALLOWED_CHAT_IDS,
                     classifier_classify(Head(ret.queue), ret.use_llm))
    /\ ret' = [ret EXCEPT !.queue = Tail(@), !.seen = Append(@, Head(ret.queue))]
    /\ UNCHANGED <<now, payment_claims, RAZORPAY_WEBHOOK_SECRET, sqlite_plan, webhook>>

TickGroup ==
    /\ now < MaxNow
    /\ now' = now + 1
    /\ UNCHANGED ret
    /\ store_unchanged
    /\ bot_unchanged

NextGroup == HandleUpdate \/ TickGroup

SpecGroup == InitGroup /\ [][NextGroup]_vars

\* the update is one the bot has to drop: the classifier gives nothing for
\* it, or its chat is outside a list that names chats
ToBeDropped(u, ALLOWED_CHAT_IDS, use_llm) ==
    \/ classifier_classify(u, use_llm) = None
    \/ ALLOWED_CHAT_IDS # {} /\ u.chat_id \notin ALLOWED_CHAT_IDS

\* C37: handling a group message for which classify returns nothing, or a
\* message from a chat outside a non-empty allowed-chat list, inserts no
\* listing, creates no lead request, sends no reply and leaves the store as
\* it was; and as long as only such messages were handled, the store the
\* next message meets is the one the run started with
C37_DroppedSilently ==
    [][ /\ (ret.op = "updates" /\ ret.queue # <<>> /\ ret'.queue = Tail(ret.queue)
            /\ ToBeDropped(Head(ret.queue), ret.ALLOWED_CHAT_IDS, ret.use_llm))
           => UNCHANGED <<listings, listing_seq, lead_requests, payment_claims, outbox>>
        /\ (\A k \in 1..Len(ret'.seen) :
                ToBeDropped(ret'.seen[k], ret.ALLOWED_CHAT_IDS, ret.use_llm))
           => (listings' = <<>> /\ listing_seq' = 0 /\ lead_requests' = <<>>
               /\ payment_claims' = <<>> /\ outbox' = <<>>) ]_vars

\* a group message the classifier gives a result for came from a chat
\* outside the list and was dropped, and the message after it was stored as
\* the first row
C37_Witness ==
    /\ ret.op = "updates"
    /\ Len(ret.seen) = 2
    /\ ret.ALLOWED_CHAT_IDS # {}
    /\ ret.seen[1].chat_type = "group"
    /\ ret.seen[1].chat_id \notin ret.ALLOWED_CHAT_IDS
    /\ classifier_classify(ret.seen[1], ret.use_llm) # None
    /\ Len(listings) = 1
    /\ listings[1].id = 1
    /\ listings[1].user_id = ret.seen[2].user_id


\* the closed catalog: CATEGORIES of llm_classifier.py, as the store holds them
Catalog == {column(c) : c \in LLM_CATEGORIES}

\* the categories of keywords.py
KeywordCatalog == {column(CATEGORIES[k].name) : k \in 1..Len(CATEGORIES)}

\* C39: every listing stored by message handling, whether the Groq
\* classifier or the keyword scorer produced it, has listing_type offer or
\* query, a category of the catalog of 14, property_type sale, rent or NULL
\* and gender_preference male, female or NULL
C39_StoredListingsWellTyped ==
    /\ Cardinality(Catalog) = 14
    /\ KeywordCatalog = Catalog
    /\ \A i \in 1..Len(listings) :
          /\ listings[i].listing_type \in {"offer", "query"}
          /\ listings[i].category \in Catalog
          /\ listings[i].property_type \in {"sale", "rent", SqlNull}
          /\ listings[i].gender_preference \in {"male", "female", SqlNull}

\* one row came from an answer of the Groq classifier that named a property
\* type, the next from the keyword scorer after the Groq call failed
C39_Witness ==
    /\ ret.op = "updates"
    /\ ret.use_llm
    /\ Len(listings) = 2
    /\ Len(ret.seen) = 2
    /\ ~ret.seen[1].remote.error
    /\ llm_classify(ret.seen[1].text, ret.seen[1].remote) # None
    /\ listings[1].property_type = "rent"
    /\ ret.seen[2].remote.error
    /\ listings[2].category \in KeywordCatalog

====
